---- MODULE Spec2Model ----
(***************************************************************************)
(* A model of msgpack-schema: the Int carrier of msgpack-value, the        *)
(* Serializer / Deserializer of src/lib.rs (the MessagePack marker table), *)
(* the Value bridge, and the code that the derive macros of                *)
(* msgpack-schema-impl generate for each schema shape.                     *)
(*                                                                         *)
(* Machine integers are kept as big-endian byte vectors of their own       *)
(* width (u8 = 1 byte ... u64 / i64 = 8 bytes, two's complement), so that  *)
(* every widening, narrowing and wire encoding is computed and not assumed.*)
(* Floats are kept as their IEEE bit patterns (4 or 8 bytes).              *)
(***************************************************************************)
EXTENDS Integers, Sequences, FiniteSets, TLC

VARIABLES
    pc,     \* "gen": choosing a value, "ser": serialized, "de": a Deserializer
            \* is live, "failed": its last operation returned an error
    src,    \* the typed value handed to serialize(): <<type name, value>>, or <<>>
    w,      \* Serializer.w : the bytes written by serialize()
    input,  \* the byte slice handed to Deserializer::new
    r,      \* Deserializer.r : the bytes not yet consumed (the cursor)
    out,    \* the last Deserializer operation and its result
    nops    \* number of Deserializer operations run on the current input

vars == <<pc, src, w, input, r, out, nops>>

(***************************************************************************)
(* Byte vectors                                                            *)
(***************************************************************************)
Byte == 0..255

Rep(b, n) == [i \in 1..n |-> b]

Tail_(s, n) == SubSeq(s, Len(s) - n + 1, Len(s))       \* the last n bytes

Drop(s, n) == SubSeq(s, n + 1, Len(s))                 \* s[n..]

Take(s, n) == SubSeq(s, 1, n)                          \* s[0..n]

AllEq(s, b) == \A i \in 1..Len(s) : s[i] = b

\* zero extension of an unsigned byte vector to n bytes (`v as u64`, `len as u32`)
ZeroExt(bv, n) == Rep(0, n - Len(bv)) \o bv

\* sign extension of a two's complement byte vector to n bytes (`v as i64`)
SignExt(bv, n) == Rep(IF bv[1] >= 128 THEN 255 ELSE 0, n - Len(bv)) \o bv

\* a natural number below 2^31 as an unsigned byte vector of n <= 4 bytes
FromNat(x, n) == [i \in 1..n |-> (x \div (256 ^ (n - i))) % 256]

\* the byte vector is below 2^16, so that its value is a model integer
IsSmall(bv) == \A i \in 1..(Len(bv) - 2) : bv[i] = 0

ToNat(bv) ==
    IF Len(bv) = 1 THEN bv[1]
    ELSE bv[Len(bv) - 1] * 256 + bv[Len(bv)]

IsZero(bv) == AllEq(bv, 0)

RECURSIVE Dec(_)
\* bv - 1 on an unsigned byte vector, wrapping at zero
Dec(bv) ==
    LET n == Len(bv) IN
    IF n = 0 THEN <<>>
    ELSE IF bv[n] > 0 THEN [bv EXCEPT ![n] = bv[n] - 1]
    ELSE Dec(Take(bv, n - 1)) \o <<255>>

(***************************************************************************)
(* msgpack-value: Int                                                      *)
(***************************************************************************)
\* a conversion that takes bit 63 of a u64 for the sign, as if it were an i64
IntFromU64AsI64(v) == [sign |-> v[1] >= 128, value |-> v]

\* impl From<u64> for Int
IntFromU64(v) == [sign |-> FALSE, value |-> v]

\* impl From<i64> for Int
IntFromI64(v) ==
    IF v[1] < 128 THEN IntFromU64(v)
    ELSE [sign |-> TRUE, value |-> v]

\* impl From<u8 / u16 / u32 / usize> for Int : (v as u64).into()
IntFromUnsigned(v) == IntFromU64(ZeroExt(v, 8))

\* impl From<i8 / i16 / i32 / isize> for Int : (v as i64).into()
IntFromSigned(v) == IntFromI64(SignExt(v, 8))

Err == [ok |-> FALSE, v |-> <<>>]

Ok(v) == [ok |-> TRUE, v |-> v]

\* a conversion to u64 that fails from 2^63 on, where the one to i64 fails
U64TryFromBelowI64Max(n) == IF n.sign \/ n.value[1] >= 128 THEN Err ELSE Ok(n.value)

\* impl TryFrom<Int> for u64
U64TryFrom(n) == IF n.sign THEN Err ELSE Ok(n.value)

\* a conversion that reinterprets the 64 bits whatever the sign flag says
I64TryFromWrapping(n) == Ok(n.value)

\* impl TryFrom<Int> for i64
I64TryFrom(n) ==
    IF n.sign THEN Ok(n.value)
    ELSE IF n.value[1] < 128 THEN Ok(n.value)
    ELSE Err

\* impl TryFrom<Int> for u8 / u16 / u32 : u64::try_from(value)?.try_into()
UnsignedTryFrom(n, width) ==
    LET a == U64TryFrom(n) IN
    IF ~a.ok THEN Err
    ELSE IF AllEq(Take(a.v, 8 - width), 0) THEN Ok(Tail_(a.v, width))
    ELSE Err

\* impl TryFrom<Int> for i8 / i16 / i32 : i64::try_from(value)?.try_into()
SignedTryFrom(n, width) ==
    LET a == I64TryFrom(n) IN
    IF ~a.ok THEN Err
    ELSE IF SignExt(Tail_(a.v, width), 8) = a.v THEN Ok(Tail_(a.v, width))
    ELSE Err

(***************************************************************************)
(* Serializer (src/lib.rs): every operation returns the bytes it appends   *)
(***************************************************************************)
serialize_nil == <<192>>

serialize_bool(v) == IF v THEN <<195>> ELSE <<194>>

\* rmp::encode::write_uint as called by serialize_int
write_uint(v) ==
    IF AllEq(Take(v, 7), 0) /\ v[8] < 128 THEN <<v[8]>>
    ELSE IF AllEq(Take(v, 7), 0) THEN <<204>> \o Tail_(v, 1)
    ELSE IF AllEq(Take(v, 6), 0) THEN <<205>> \o Tail_(v, 2)
    ELSE IF AllEq(Take(v, 4), 0) THEN <<206>> \o Tail_(v, 4)
    ELSE <<207>> \o v

\* rmp::encode::write_sint as called by serialize_int
write_sint(v) ==
    IF v[1] < 128 THEN write_uint(v)
    ELSE IF AllEq(Take(v, 7), 255) /\ v[8] >= 224 THEN <<v[8]>>
    ELSE IF AllEq(Take(v, 7), 255) /\ v[8] >= 128 THEN <<208>> \o Tail_(v, 1)
    ELSE IF AllEq(Take(v, 6), 255) /\ v[7] >= 128 THEN <<209>> \o Tail_(v, 2)
    ELSE IF AllEq(Take(v, 4), 255) /\ v[5] >= 128 THEN <<210>> \o Tail_(v, 4)
    ELSE <<211>> \o v

\* the unwrap of a failed u64 conversion panics before anything is written
serialize_int(n) ==
    IF I64TryFrom(n).ok THEN write_sint(I64TryFrom(n).v)
    ELSE IF U64TryFrom(n).ok THEN write_uint(U64TryFrom(n).v)
    ELSE <<>>

serialize_f32(bits) == <<202>> \o bits

serialize_f64(bits) == <<203>> \o bits

serialize_str(v) ==
    LET n == Len(v) IN
    (IF n < 32 THEN <<160 + n>>
     ELSE IF n < 256 THEN <<217, n>>
     ELSE IF n < 65536 THEN <<218>> \o FromNat(n, 2)
     ELSE <<219>> \o FromNat(n, 4)) \o v

serialize_bin(v) ==
    LET n == Len(v) IN
    (IF n < 256 THEN <<196, n>>
     ELSE IF n < 65536 THEN <<197>> \o FromNat(n, 2)
     ELSE <<198>> \o FromNat(n, 4)) \o v

serialize_array(len) ==
    IF len < 16 THEN <<144 + len>>
    ELSE IF len < 65536 THEN <<220>> \o FromNat(len, 2)
    ELSE <<221>> \o FromNat(len, 4)

\* a serializer that writes a Map header with the Array markers
serialize_map_as_array(len) == serialize_array(len)

serialize_map(len) ==
    IF len < 16 THEN <<128 + len>>
    ELSE IF len < 65536 THEN <<222>> \o FromNat(len, 2)
    ELSE <<223>> \o FromNat(len, 4)

serialize_ext(tag, data) ==
    LET n == Len(data) IN
    (IF n = 1 THEN <<212>>
     ELSE IF n = 2 THEN <<213>>
     ELSE IF n = 4 THEN <<214>>
     ELSE IF n = 8 THEN <<215>>
     ELSE IF n = 16 THEN <<216>>
     ELSE IF n < 256 THEN <<199, n>>
     ELSE IF n < 65536 THEN <<200>> \o FromNat(n, 2)
     ELSE <<201>> \o FromNat(n, 4)) \o <<tag>> \o data

(***************************************************************************)
(* Deserializer (src/lib.rs)                                               *)
(*                                                                         *)
(* A result is [res, val, rest]: res is "ok", "validation"                 *)
(* (DeserializeError::Validation), "invalid" (InvalidInputError) or        *)
(* "panic" (an arithmetic overflow trap); rest is the cursor afterwards.   *)
(***************************************************************************)
Res(res, val, rest) == [res |-> res, val |-> val, rest |-> rest]

Invalid(rest) == Res("invalid", <<>>, rest)

Validation(rest) == Res("validation", <<>>, rest)

\* byteorder read_u8 / read_u16 / read_u32 / read_u64 (and the signed reads):
\* n bytes, big-endian, or an error when fewer remain
ReadFixed(s, n) ==
    IF Len(s) >= n THEN Res("ok", Take(s, n), Drop(s, n))
    ELSE Invalid(s)

\* a slice read that gives the bytes that remain when fewer than len remain
ReadSliceShort(s, len) ==
    IF IsSmall(len) /\ ToNat(len) <= Len(s)
    THEN Res("ok", Take(s, ToNat(len)), Drop(s, ToNat(len)))
    ELSE Res("ok", s, <<>>)

\* self.r.get(0..len).ok_or(InvalidInputError)?; self.r = self.r.get(len..)
ReadSlice(s, len) ==
    IF IsSmall(len) /\ ToNat(len) <= Len(s)
    THEN Res("ok", Take(s, ToNat(len)), Drop(s, ToNat(len)))
    ELSE Invalid(s)

\* a length prefix of n bytes followed by that many bytes of payload
ReadLenSlice(s, n) ==
    LET l == ReadFixed(s, n) IN
    IF l.res # "ok" THEN l ELSE ReadSlice(l.rest, l.val)

\* Ext8/16/32: length prefix of n bytes, the i8 type tag, then the data
ReadExt(s, n) ==
    LET l == ReadFixed(s, n) IN
    IF l.res # "ok" THEN l
    ELSE LET t == ReadFixed(l.rest, 1) IN
         IF t.res # "ok" THEN t
         ELSE LET d == ReadSlice(t.rest, l.val) IN
              IF d.res # "ok" THEN d
              ELSE Res("ok", <<"Ext", t.val[1], d.val>>, d.rest)

\* FixExt1/2/4/8/16: the i8 type tag, then n bytes of data
ReadFixExt(s, n) == ReadExt(<<n>> \o s, 1)

\* map a successful read to a token
Tok(rd, kind) ==
    IF rd.res # "ok" THEN rd
    ELSE Res("ok", <<kind, rd.val>>, rd.rest)

TokUInt(rd) ==
    IF rd.res # "ok" THEN rd
    ELSE Res("ok", <<"Int", IntFromUnsigned(rd.val)>>, rd.rest)

TokSInt(rd) ==
    IF rd.res # "ok" THEN rd
    ELSE Res("ok", <<"Int", IntFromSigned(rd.val)>>, rd.rest)

\* Token::Array(len as u32) / Token::Map(len as u32)
TokLen(rd, kind) ==
    IF rd.res # "ok" THEN rd
    ELSE Res("ok", <<kind, ZeroExt(rd.val, 4)>>, rd.rest)

deserialize_token(r_) ==
    IF r_ = <<>> THEN Invalid(r_)
    ELSE
    LET m == r_[1]
        s == Drop(r_, 1)
    IN  CASE m = 192 -> Res("ok", <<"Nil">>, s)
          [] m = 195 -> Res("ok", <<"Bool", TRUE>>, s)
          [] m = 194 -> Res("ok", <<"Bool", FALSE>>, s)
          [] m <= 127 -> Res("ok", <<"Int", IntFromUnsigned(<<m>>)>>, s)
          [] m >= 224 -> Res("ok", <<"Int", IntFromSigned(<<m>>)>>, s)
          [] m = 204 -> TokUInt(ReadFixed(s, 1))
          [] m = 205 -> TokUInt(ReadFixed(s, 2))
          [] m = 206 -> TokUInt(ReadFixed(s, 4))
          [] m = 207 -> TokUInt(ReadFixed(s, 8))
          [] m = 208 -> TokSInt(ReadFixed(s, 1))
          [] m = 209 -> TokSInt(ReadFixed(s, 2))
          [] m = 210 -> TokSInt(ReadFixed(s, 4))
          [] m = 211 -> TokSInt(ReadFixed(s, 8))
          [] m = 202 -> Tok(ReadFixed(s, 4), "F32")
          [] m = 203 -> Tok(ReadFixed(s, 8), "F64")
          [] m >= 160 /\ m <= 191 -> Tok(ReadSlice(s, <<m - 160>>), "Str")
          [] m = 217 -> Tok(ReadLenSlice(s, 1), "Str")
          [] m = 218 -> Tok(ReadLenSlice(s, 2), "Str")
          [] m = 219 -> Tok(ReadLenSlice(s, 4), "Str")
          [] m = 196 -> Tok(ReadLenSlice(s, 1), "Bin")
          [] m = 197 -> Tok(ReadLenSlice(s, 2), "Bin")
          [] m = 198 -> Tok(ReadLenSlice(s, 4), "Bin")
          [] m >= 144 /\ m <= 159 -> Res("ok", <<"Array", ZeroExt(<<m - 144>>, 4)>>, s)
          [] m = 220 -> TokLen(ReadFixed(s, 2), "Array")
          [] m = 221 -> TokLen(ReadFixed(s, 4), "Array")
          [] m >= 128 /\ m <= 143 -> Res("ok", <<"Map", ZeroExt(<<m - 128>>, 4)>>, s)
          [] m = 222 -> TokLen(ReadFixed(s, 2), "Map")
          [] m = 223 -> TokLen(ReadFixed(s, 4), "Map")
          [] m = 212 -> ReadFixExt(s, 1)
          [] m = 213 -> ReadFixExt(s, 2)
          [] m = 214 -> ReadFixExt(s, 4)
          [] m = 215 -> ReadFixExt(s, 8)
          [] m = 216 -> ReadFixExt(s, 16)
          [] m = 199 -> ReadExt(s, 1)
          [] m = 200 -> ReadExt(s, 2)
          [] m = 201 -> ReadExt(s, 4)
          [] m = 193 -> Invalid(s)

RECURSIVE AddC(_, _, _)
\* a + b + c on unsigned byte vectors of equal length n: n + 1 bytes, the
\* first one being the carry out of the top byte
AddC(a, b, c) ==
    LET n == Len(a) IN
    IF n = 0 THEN <<c>>
    ELSE LET t == a[n] + b[n] + c
         IN  AddC(Take(a, n - 1), Take(b, n - 1), t \div 256) \o <<t % 256>>

\* The two ways a build treats u32 overflow: "checked" traps (debug
\* assertions / overflow-checks on), "wrapping" wraps modulo 2^32 (release).
Profiles == {"checked", "wrapping"}

RECURSIVE AnyLoop(_, _, _)
\* the body of the loop of deserialize_any after `count -= 1` (c1) :
\* match self.deserialize_token()? { .. }
AnyMatch(p, c1, t) ==
    IF t.res # "ok" THEN Invalid(t.rest)
    ELSE IF t.val[1] = "Array" THEN
        LET sum == AddC(c1, t.val[2], 0) IN
        IF sum[1] # 0 /\ p = "checked" THEN Res("panic", <<>>, t.rest)
        ELSE AnyLoop(p, Drop(sum, 1), t.rest)
    ELSE IF t.val[1] = "Map" THEN
        LET dbl == AddC(t.val[2], t.val[2], 0)
            sum == AddC(c1, Drop(dbl, 1), 0)
        IN  IF (dbl[1] # 0 \/ sum[1] # 0) /\ p = "checked"
            THEN Res("panic", <<>>, t.rest)
            ELSE AnyLoop(p, Drop(sum, 1), t.rest)
    ELSE AnyLoop(p, c1, t.rest)

\* the loop of Deserializer::deserialize_any; count is a u32
AnyLoop(p, count, r_) ==
    IF IsZero(count) THEN Res("ok", <<"Any">>, r_)
    ELSE AnyMatch(p, Dec(count), deserialize_token(r_))

\* a discard that reads one token and does not follow Array / Map headers
deserialize_any_one_token(p, r_) ==
    LET t == deserialize_token(r_) IN
    IF t.res # "ok" THEN Invalid(t.rest) ELSE Res("ok", <<"Any">>, t.rest)

deserialize_any(p, r_) == AnyLoop(p, <<0, 0, 0, 1>>, r_)

(***************************************************************************)
(* String::from_utf8 : the well-formed UTF-8 byte sequences                *)
(***************************************************************************)
Cont(b) == b >= 128 /\ b <= 191

\* the length of the sequence a lead byte announces, 0 for a byte that
\* cannot start one (a continuation byte, C0, C1, F5..FF)
SeqLen(b) ==
    IF b <= 127 THEN 1
    ELSE IF b >= 194 /\ b <= 223 THEN 2
    ELSE IF b >= 224 /\ b <= 239 THEN 3
    ELSE IF b >= 240 /\ b <= 244 THEN 4
    ELSE 0

\* the second byte of a sequence led by b1 : no overlong form, no surrogate,
\* nothing above U+10FFFF
Second(b1, b2) ==
    /\ Cont(b2)
    /\ (b1 = 224 => b2 >= 160)
    /\ (b1 = 237 => b2 <= 159)
    /\ (b1 = 240 => b2 >= 144)
    /\ (b1 = 244 => b2 <= 143)

\* every byte is a lead byte followed by exactly its continuation bytes, or
\* a continuation byte of the sequence led by one of the 3 bytes before it
IsUtf8(b) ==
    \A i \in 1..Len(b) :
        IF Cont(b[i])
        THEN \E k \in 1..3 :
                /\ i - k >= 1
                /\ SeqLen(b[i - k]) > k
                /\ \A j \in (i - k + 1)..(i - 1) : Cont(b[j])
        ELSE /\ SeqLen(b[i]) > 0
             /\ i + SeqLen(b[i]) - 1 <= Len(b)
             /\ \A j \in (i + 1)..(i + SeqLen(b[i]) - 1) : Cont(b[j])
             /\ (SeqLen(b[i]) > 1 => Second(b[i], b[i + 1]))

(***************************************************************************)
(* Schemas: the type declarations the derive macros are applied to.        *)
(* A declaration is plain data; Ser and Deser below are the code the       *)
(* macros generate for it. The declarations are those of src/tests/test.rs *)
(* and of the crate documentation, plus Trial, an untagged enum with one   *)
(* variant for each way an inner decode can fail.                          *)
(***************************************************************************)
Prim(kind) == [kind |-> kind, fields |-> <<>>]

\* a named field : attr is "ordinary", "optional" or "flatten"
\* a tuple field : attr is "positional"
\* a variant     : attr is "unit" (Foo), "empty" (Foo()) or "newtype" (Foo(T))
Field(attr, tag, ty) == [attr |-> attr, tag |-> tag, ty |-> ty]

NoTag == 0 - 1

Schema(ty) ==
    CASE ty = "Human" ->       \* test.rs struct_tag_roundtrip
            [kind |-> "struct",
             fields |-> << Field("ordinary", 0, "u32"),
                           Field("ordinary", 2, "String") >>]
      [] ty = "HumanOpt" ->    \* test.rs serialize_struct_optional
            [kind |-> "struct",
             fields |-> << Field("ordinary", 0, "u32"),
                           Field("optional", 2, "String") >>]
      [] ty = "S1" ->          \* test.rs serialize_struct_flatten
            [kind |-> "struct",
             fields |-> << Field("ordinary", 1, "u32") >>]
      [] ty = "S2" ->
            [kind |-> "struct",
             fields |-> << Field("ordinary", 2, "u32"),
                           Field("flatten", NoTag, "S1") >>]
      [] ty = "S2Clash" ->     \* S2 with the tag that S1 uses: check_tag_uniqueness
                               \* sees the tags of one struct, so the derive accepts it
            [kind |-> "struct",
             fields |-> << Field("ordinary", 1, "u32"),
                           Field("flatten", NoTag, "S1") >>]
      [] ty = "S2Flat" ->      \* S2 with the fields of S1 declared in place (lib.rs S3)
            [kind |-> "struct",
             fields |-> << Field("ordinary", 2, "u32"),
                           Field("ordinary", 1, "u32") >>]
      [] ty = "Nested" ->      \* a #[flatten] field that itself has a #[flatten] field
            [kind |-> "struct",
             fields |-> << Field("flatten", NoTag, "S2"),
                           Field("optional", 0, "bool") >>]
      [] ty = "NestedFlat" ->  \* Nested with the fields of S2 and S1 declared in place
            [kind |-> "struct",
             fields |-> << Field("ordinary", 2, "u32"),
                           Field("ordinary", 1, "u32"),
                           Field("optional", 0, "bool") >>]
      [] ty = "HumanU" ->      \* test.rs serialize_untagged_struct
            [kind |-> "untagged_struct",
             fields |-> << Field("positional", NoTag, "String"),
                           Field("positional", NoTag, "u32") >>]
      [] ty = "Newtype" ->     \* test.rs serialize_newtype_struct : struct S(u32)
            [kind |-> "newtype_struct",
             fields |-> << Field("positional", NoTag, "u32") >>]
      [] ty = "Tuple" ->       \* test.rs deserialize_tuple_struct_wrong_length
            [kind |-> "tuple_struct",
             fields |-> << Field("positional", NoTag, "u32"),
                           Field("positional", NoTag, "bool") >>]
      [] ty = "Animal" ->      \* test.rs deserialize_tuple_variants, plus Fish()
            [kind |-> "enum",
             fields |-> << Field("newtype", 1, "String"),
                           Field("newtype", 2, "u32"),
                           Field("unit", 3, ""),
                           Field("empty", 4, "") >>]
      [] ty = "AnimalU" ->     \* test.rs deserialize_untagged_enum
            [kind |-> "untagged_enum",
             fields |-> << Field("newtype", NoTag, "String"),
                           Field("newtype", NoTag, "u32") >>]
      [] ty = "Trial" ->
            [kind |-> "untagged_enum",
             fields |-> << Field("newtype", NoTag, "Human"),
                           Field("newtype", NoTag, "Tuple"),
                           Field("newtype", NoTag, "Animal"),
                           Field("newtype", NoTag, "u8"),
                           Field("newtype", NoTag, "String"),
                           Field("newtype", NoTag, "Value") >>]
      [] ty = "VecBool" -> [kind |-> "Vec", fields |-> << Field("positional", NoTag, "bool") >>]
      [] ty = "VecI32" -> [kind |-> "Vec", fields |-> << Field("positional", NoTag, "i32") >>]
      [] ty = "BoxI32" -> [kind |-> "Box", fields |-> << Field("positional", NoTag, "i32") >>]
      [] OTHER -> Prim(ty)

UnsignedWidth(kind) ==
    CASE kind = "u8" -> 1 [] kind = "u16" -> 2 [] kind = "u32" -> 4 [] kind = "u64" -> 8
      [] OTHER -> 0

SignedWidth(kind) ==
    CASE kind = "i8" -> 1 [] kind = "i16" -> 2 [] kind = "i32" -> 4 [] kind = "i64" -> 8
      [] OTHER -> 0

(***************************************************************************)
(* Deserialize : the trait implementations of src/lib.rs and the code      *)
(* generated by msgpack-schema-impl/src/deserialize.rs                     *)
(***************************************************************************)
\* the error of a failed step, passed on by `?`
Fail(d) == Res(d.res, <<>>, d.rest)

\* impl Deserialize for u8 .. i64 :
\*   deserializer.deserialize::<Int>()?.try_into().map_err(|_| ValidationError)
Narrow(kind, n) ==
    IF kind = "u64" THEN U64TryFrom(n)
    ELSE IF kind = "i64" THEN I64TryFrom(n)
    ELSE IF UnsignedWidth(kind) > 0 THEN UnsignedTryFrom(n, UnsignedWidth(kind))
    ELSE SignedTryFrom(n, SignedWidth(kind))

\* index of the tagged field whose #[tag] equals the u32 read, or 0
FieldOfTag(fields, tag) ==
    LET hit == { i \in 1..Len(fields) :
                    /\ fields[i].attr # "flatten"
                    /\ FromNat(fields[i].tag, 4) = tag }
    IN  IF hit = {} THEN 0 ELSE CHOOSE i \in hit : \A j \in hit : i <= j

RECURSIVE Deser(_, _, _)
RECURSIVE ValueItems(_, _, _, _)
RECURSIVE ValueEntries(_, _, _, _)
RECURSIVE VecItems(_, _, _, _, _)
RECURSIVE InitFields(_, _, _, _, _)
RECURSIVE StructLoop(_, _, _, _, _)
RECURSIVE Members(_, _, _, _, _)
RECURSIVE Clauses(_, _, _, _)

\* a trial decode made on the cursor itself: nothing is restored on failure
try_deserialize_in_place(p, ty, r_) ==
    LET d == Deser(p, ty, r_) IN
    IF d.res = "ok" THEN Res("ok", <<"Some", d.val>>, d.rest)
    ELSE IF d.res = "validation" THEN Res("ok", <<"None">>, d.rest)
    ELSE Res(d.res, <<>>, d.rest)

\* a trial decode that answers None to every error, InvalidInput included
try_deserialize_lenient(p, ty, r_) ==
    LET d == Deser(p, ty, r_) IN
    IF d.res = "ok" THEN Res("ok", <<"Some", d.val>>, d.rest)
    ELSE Res("ok", <<"None">>, r_)

\* Deserializer::try_deserialize : decode on a copy of the cursor; commit the
\* copy on success, keep the cursor on a validation error, pass on the rest
TryMatch(d, r_) ==
    IF d.res = "ok" THEN Res("ok", <<"Some", d.val>>, d.rest)
    ELSE IF d.res = "validation" THEN Res("ok", <<"None">>, r_)
    ELSE Res(d.res, <<>>, r_)

try_deserialize(p, ty, r_) == TryMatch(Deser(p, ty, r_), r_)

\* impl Deserialize for Value, Token::Array(len) : for _ in 0..len
ValueItems(p, len, r_, acc) ==
    IF IsZero(len) THEN Res("ok", <<"Array", acc>>, r_)
    ELSE LET d == Deser(p, "Value", r_) IN
         IF d.res # "ok" THEN Fail(d)
         ELSE ValueItems(p, Dec(len), d.rest, Append(acc, d.val))

\* impl Deserialize for Value, Token::Map(len) : for _ in 0..len
ValueEntries(p, len, r_, acc) ==
    IF IsZero(len) THEN Res("ok", <<"Map", acc>>, r_)
    ELSE LET k == Deser(p, "Value", r_) IN
         IF k.res # "ok" THEN Fail(k)
         ELSE LET v == Deser(p, "Value", k.rest) IN
              IF v.res # "ok" THEN Fail(v)
              ELSE ValueEntries(p, Dec(len), v.rest, Append(acc, <<k.val, v.val>>))

\* impl Deserialize for Vec<T> : for _ in 0..len { vec.push(deserialize()?) }
VecItems(p, ty, len, r_, acc) ==
    IF IsZero(len) THEN Res("ok", acc, r_)
    ELSE LET d == Deser(p, ty, r_) IN
         IF d.res # "ok" THEN Fail(d)
         ELSE VecItems(p, ty, Dec(len), d.rest, Append(acc, d.val))

\* derive_struct, #( #init )* : a slot per field in declaration order; a
\* #[flatten] field is decoded at once from a clone of the cursor
InitFields(p, fields, i, r_, slots) ==
    IF i > Len(fields) THEN Res("ok", slots, r_)
    ELSE IF fields[i].attr = "flatten" THEN
        LET d == Deser(p, fields[i].ty, r_) IN
        IF d.res # "ok" THEN Res(d.res, <<>>, r_)
        ELSE InitFields(p, fields, i + 1, r_, Append(slots, <<"Some", d.val>>))
    ELSE InitFields(p, fields, i + 1, r_, Append(slots, <<"None">>))

RECURSIVE StructLoopLastWins(_, _, _, _, _)
\* the loop without the is_some() check: a later entry overwrites the field
StructLoopLastWins(p, fields, len, r_, slots) ==
    IF IsZero(len) THEN Res("ok", slots, r_)
    ELSE
    LET t == Deser(p, "u32", r_) IN
    IF t.res # "ok" THEN Fail(t)
    ELSE
    LET i == FieldOfTag(fields, t.val) IN
    IF i = 0 THEN
        LET a == Deser(p, "Any", t.rest) IN
        IF a.res # "ok" THEN Fail(a)
        ELSE StructLoopLastWins(p, fields, Dec(len), a.rest, slots)
    ELSE
        LET d == Deser(p, fields[i].ty, t.rest) IN
        IF d.res # "ok" THEN Fail(d)
        ELSE StructLoopLastWins(p, fields, Dec(len), d.rest,
                                [slots EXCEPT ![i] = <<"Some", d.val>>])

\* a loop that takes the entries in the declaration order of the fields only:
\* an entry for a field declared before one that is already filled is refused
StructLoopInOrder(p, fields, len, r_, slots) ==
    IF IsZero(len) THEN Res("ok", slots, r_)
    ELSE
    LET t == Deser(p, "u32", r_) IN
    IF t.res # "ok" THEN Fail(t)
    ELSE
    LET i == FieldOfTag(fields, t.val) IN
    IF i = 0 THEN
        LET a == Deser(p, "Any", t.rest) IN
        IF a.res # "ok" THEN Fail(a)
        ELSE StructLoop(p, fields, Dec(len), a.rest, slots)
    ELSE IF \E j \in i..Len(fields) :
               fields[j].attr # "flatten" /\ slots[j][1] = "Some"
        THEN Validation(t.rest)
    ELSE
        LET d == Deser(p, fields[i].ty, t.rest) IN
        IF d.res # "ok" THEN Fail(d)
        ELSE StructLoop(p, fields, Dec(len), d.rest,
                        [slots EXCEPT ![i] = <<"Some", d.val>>])

\* derive_struct : for _ in 0..__len { let __tag: u32 = ..; match __tag {..} }
StructLoop(p, fields, len, r_, slots) ==
    IF IsZero(len) THEN Res("ok", slots, r_)
    ELSE
    LET t == Deser(p, "u32", r_) IN
    IF t.res # "ok" THEN Fail(t)
    ELSE
    LET i == FieldOfTag(fields, t.val) IN
    IF i = 0 THEN
        LET a == Deser(p, "Any", t.rest) IN
        IF a.res # "ok" THEN Fail(a)
        ELSE StructLoop(p, fields, Dec(len), a.rest, slots)
    ELSE IF slots[i][1] = "Some" THEN Invalid(t.rest)
    ELSE
        LET d == Deser(p, fields[i].ty, t.rest) IN
        IF d.res # "ok" THEN Fail(d)
        ELSE StructLoop(p, fields, Dec(len), d.rest,
                        [slots EXCEPT ![i] = <<"Some", d.val>>])

\* constructors that report a field left unfilled as a wire-level error
CtorsInvalid(fields, slots, rest) ==
    IF \E i \in 1..Len(fields) :
          fields[i].attr = "ordinary" /\ slots[i][1] = "None"
    THEN Invalid(rest)
    ELSE Res("ok",
             [i \in 1..Len(fields) |->
                 IF fields[i].attr = "optional" THEN slots[i] ELSE slots[i][2]],
             rest)

\* constructors that apply ok_or(ValidationError)? to the optional fields too
CtorsAllRequired(fields, slots, rest) ==
    IF \E i \in 1..Len(fields) : slots[i][1] = "None"
    THEN Validation(rest)
    ELSE Res("ok",
             [i \in 1..Len(fields) |->
                 IF fields[i].attr = "optional" THEN slots[i] ELSE slots[i][2]],
             rest)

\* derive_struct, #( #ctors )* : ident.ok_or(ValidationError)? for an ordinary
\* field; an optional field keeps its Option, a flatten field its value
Ctors(fields, slots, rest) ==
    IF \E i \in 1..Len(fields) :
          fields[i].attr = "ordinary" /\ slots[i][1] = "None"
    THEN Validation(rest)
    ELSE Res("ok",
             [i \in 1..Len(fields) |->
                 IF fields[i].attr = "optional" THEN slots[i] ELSE slots[i][2]],
             rest)

\* derive_untagged_struct / derive_tuple_struct : the members, in order
Members(p, fields, i, r_, acc) ==
    IF i > Len(fields) THEN Res("ok", acc, r_)
    ELSE LET d == Deser(p, fields[i].ty, r_) IN
         IF d.res # "ok" THEN Fail(d)
         ELSE Members(p, fields, i + 1, d.rest, Append(acc, d.val))

RECURSIVE ClausesLastFirst(_, _, _, _)
\* the clauses emitted in the reverse of the declaration order
ClausesLastFirst(p, fields, i, r_) ==
    IF i > Len(fields) THEN Validation(r_)
    ELSE LET k == Len(fields) + 1 - i
             t == try_deserialize(p, fields[k].ty, r_)
         IN  IF t.res # "ok" THEN Fail(t)
             ELSE IF t.val[1] = "Some" THEN Res("ok", <<k, t.val[2]>>, t.rest)
             ELSE ClausesLastFirst(p, fields, i + 1, t.rest)

\* derive_untagged_enum : one try_deserialize clause per variant, in order;
\* a decoded enum value is <<variant index>> or <<variant index, payload>>
Clauses(p, fields, i, r_) ==
    IF i > Len(fields) THEN Validation(r_)
    ELSE LET t == try_deserialize(p, fields[i].ty, r_) IN
         IF t.res # "ok" THEN Fail(t)
         ELSE IF t.val[1] = "Some" THEN Res("ok", <<i, t.val[2]>>, t.rest)
         ELSE Clauses(p, fields, i + 1, t.rest)

\* derive_enum : match __tag { #( #clauses )* _ => Err(ValidationError) }
EnumClauses(p, fields, tag, is_array, r_) ==
    LET i == FieldOfTag(fields, tag) IN
    IF i = 0 THEN Validation(r_)
    ELSE IF fields[i].attr = "unit" THEN Res("ok", <<i>>, r_)
    ELSE IF fields[i].attr = "empty" THEN
        IF is_array THEN Validation(r_) ELSE Res("ok", <<i>>, r_)
    ELSE IF ~is_array THEN Validation(r_)
    ELSE LET d == Deser(p, fields[i].ty, r_) IN
         IF d.res # "ok" THEN Fail(d)
         ELSE Res("ok", <<i, d.val>>, d.rest)

\* a body that takes the first members of a longer Array and leaves the rest
ArrayBodyPrefix(p, fields, t) ==
    IF t.val[1] # "Array" THEN Validation(t.rest)
    ELSE IF ToNat(Drop(t.val[2], 2)) < Len(fields) THEN Validation(t.rest)
    ELSE Members(p, fields, 1, t.rest, <<>>)

\* derive_untagged_struct / derive_tuple_struct, fn_body : the token read must
\* be Token::Array(len) with len equal to the number of fields
ArrayBody(p, fields, t) ==
    IF t.val[1] # "Array" THEN Validation(t.rest)
    ELSE IF t.val[2] # FromNat(Len(fields), 4) THEN Validation(t.rest)
    ELSE Members(p, fields, 1, t.rest, <<>>)

\* the impls that start with deserialize_token()? and match on the token
FromToken(p, sch, t) ==
    IF t.res # "ok" THEN Invalid(t.rest)
    ELSE
    LET kind == sch.kind
        tk   == t.val[1]
    IN
    CASE kind = "bool" ->
            IF tk = "Bool" THEN Res("ok", t.val[2], t.rest) ELSE Validation(t.rest)
      [] kind = "Int" ->
            IF tk = "Int" THEN Res("ok", t.val[2], t.rest) ELSE Validation(t.rest)
      [] kind = "f32" ->
            IF tk = "F32" THEN Res("ok", t.val[2], t.rest) ELSE Validation(t.rest)
      [] kind = "f64" ->
            IF tk = "F64" THEN Res("ok", t.val[2], t.rest) ELSE Validation(t.rest)
      [] kind = "Str" ->
            IF tk = "Str" THEN Res("ok", t.val[2], t.rest) ELSE Validation(t.rest)
      [] kind = "Nil" ->
            IF tk = "Nil" THEN Res("ok", <<"Nil">>, t.rest) ELSE Validation(t.rest)
      [] kind = "Empty" ->
            IF tk = "Map" /\ IsZero(t.val[2]) THEN Res("ok", <<"Empty">>, t.rest)
            ELSE Validation(t.rest)
      [] kind = "Vec" ->
            IF tk = "Array"
            THEN VecItems(p, sch.fields[1].ty, t.val[2], t.rest, <<>>)
            ELSE Validation(t.rest)
      [] kind = "Value" ->
            IF tk = "Array" THEN ValueItems(p, t.val[2], t.rest, <<>>)
            ELSE IF tk = "Map" THEN ValueEntries(p, t.val[2], t.rest, <<>>)
            ELSE Res("ok", t.val, t.rest)
      [] kind \in {"untagged_struct", "tuple_struct"} ->
            ArrayBody(p, sch.fields, t)
      [] kind = "enum" ->
            IF tk = "Int" THEN
                LET n == UnsignedTryFrom(t.val[2], 4) IN
                IF ~n.ok THEN Validation(t.rest)
                ELSE EnumClauses(p, sch.fields, n.v, FALSE, t.rest)
            ELSE IF tk = "Array" THEN
                IF t.val[2] # <<0, 0, 0, 2>> THEN Validation(t.rest)
                ELSE LET g == Deser(p, "u32", t.rest) IN
                     IF g.res # "ok" THEN Fail(g)
                     ELSE EnumClauses(p, sch.fields, g.val, TRUE, g.rest)
            ELSE Validation(t.rest)

\* derive_struct, fn_body after #( #init )* : the Map header, the loop over
\* the entries, the constructors
StructBody(p, fields, init, t) ==
    IF init.res # "ok" THEN init
    ELSE IF t.res # "ok" THEN Invalid(t.rest)
    ELSE IF t.val[1] # "Map" THEN Validation(t.rest)
    ELSE LET l == StructLoop(p, fields, t.val[2], t.rest, init.val) IN
         IF l.res # "ok" THEN l
         ELSE Ctors(fields, l.val, l.rest)

\* D::deserialize for the type declared as sch
DeserAs(p, sch, r_) ==
    LET kind == sch.kind IN
    IF kind = "Any" THEN deserialize_any(p, r_)
    ELSE IF kind \in {"Box", "newtype_struct"} THEN
        \* Ok(Box::new(deserializer.deserialize()?)) ; deserialize().map(Self)
        LET d == Deser(p, sch.fields[1].ty, r_) IN
        IF d.res # "ok" THEN Fail(d)
        ELSE IF kind = "Box" THEN d ELSE Res("ok", <<d.val>>, d.rest)
    ELSE IF kind = "String" THEN
        LET d == Deser(p, "Str", r_) IN
        IF d.res # "ok" THEN Fail(d)
        ELSE IF IsUtf8(d.val) THEN d ELSE Validation(d.rest)
    ELSE IF UnsignedWidth(kind) > 0 \/ SignedWidth(kind) > 0 THEN
        LET d == Deser(p, "Int", r_) IN
        IF d.res # "ok" THEN Fail(d)
        ELSE LET n == Narrow(kind, d.val) IN
             IF n.ok THEN Res("ok", n.v, d.rest) ELSE Validation(d.rest)
    ELSE IF kind = "untagged_enum" THEN Clauses(p, sch.fields, 1, r_)
    ELSE IF kind = "struct" THEN
        StructBody(p, sch.fields, InitFields(p, sch.fields, 1, r_, <<>>),
                   deserialize_token(r_))
    ELSE FromToken(p, sch, deserialize_token(r_))

\* Deserializer::deserialize::<ty>
Deser(p, ty, r_) == DeserAs(p, Schema(ty), r_)

(***************************************************************************)
(* Serialize : the trait implementations of src/lib.rs and the code        *)
(* generated by msgpack-schema-impl/src/serialize.rs                       *)
(***************************************************************************)
\* __serializer.serialize(#tag) : the tag is an unsuffixed integer literal,
\* serialized through impl Serialize for i32
SerTag(tag) == serialize_int(IntFromSigned(FromNat(tag, 4)))

RECURSIVE Ser(_, _)
RECURSIVE SerValues(_, _)
RECURSIVE SerEntries(_, _)
RECURSIVE SerItems(_, _, _)
RECURSIVE SerMembers(_, _, _)
RECURSIVE count_fields(_, _)
RECURSIVE CountDecs(_, _, _, _)
RECURSIVE serialize_fields(_, _)
RECURSIVE Pushes(_, _, _)

\* impl Serialize for Value, Value::Array : for x in v { serialize(x) }
SerValues(items, i) ==
    IF i > Len(items) THEN <<>>
    ELSE Ser("Value", items[i]) \o SerValues(items, i + 1)

\* impl Serialize for Value, Value::Map : for (k, v) in v { .. }
SerEntries(entries, i) ==
    IF i > Len(entries) THEN <<>>
    ELSE Ser("Value", entries[i][1]) \o Ser("Value", entries[i][2])
            \o SerEntries(entries, i + 1)

\* impl Serialize for Vec<T> : for x in self { serialize(x) }
SerItems(ty, items, i) ==
    IF i > Len(items) THEN <<>>
    ELSE Ser(ty, items[i]) \o SerItems(ty, items, i + 1)

\* derive_untagged_struct / derive_tuple_struct : serialize(&self.#ident) each
SerMembers(fields, v, i) ==
    IF i > Len(fields) THEN <<>>
    ELSE Ser(fields[i].ty, v[i]) \o SerMembers(fields, v, i + 1)

\* derive_struct, count_fields_body : the #( #decs )* applied to __max_len
CountDecs(fields, v, i, max_len) ==
    IF i > Len(fields) THEN max_len
    ELSE IF fields[i].attr = "flatten"
        THEN CountDecs(fields, v, i + 1,
                       (max_len - 1) + count_fields(fields[i].ty, v[i]))
    ELSE IF fields[i].attr = "optional" /\ v[i][1] = "None"
        THEN CountDecs(fields, v, i + 1, max_len - 1)
    ELSE CountDecs(fields, v, i + 1, max_len)

\* a count that takes every declared field, absent optional ones included
count_declared_fields(ty, v) == Len(Schema(ty).fields)

\* StructSerialize::count_fields
count_fields(ty, v) ==
    CountDecs(Schema(ty).fields, v, 1, Len(Schema(ty).fields))

\* pushes that write the entries of a #[flatten] field after the entries of
\* the fields declared after it
PushesFlattenLast(fields, v, i) ==
    IF i > Len(fields) THEN <<>>
    ELSE IF fields[i].attr = "flatten"
        THEN Pushes(fields, v, i + 1) \o serialize_fields(fields[i].ty, v[i])
    ELSE (IF fields[i].attr = "ordinary"
            THEN SerTag(fields[i].tag) \o Ser(fields[i].ty, v[i])
          ELSE IF v[i][1] = "Some"
            THEN SerTag(fields[i].tag) \o Ser(fields[i].ty, v[i][2])
          ELSE <<>>)
         \o Pushes(fields, v, i + 1)

\* pushes that write an absent optional field as its tag followed by nil
PushesNil(fields, v, i) ==
    IF i > Len(fields) THEN <<>>
    ELSE (IF fields[i].attr = "ordinary"
            THEN SerTag(fields[i].tag) \o Ser(fields[i].ty, v[i])
          ELSE IF fields[i].attr = "optional"
            THEN (IF v[i][1] = "Some"
                    THEN SerTag(fields[i].tag) \o Ser(fields[i].ty, v[i][2])
                    ELSE SerTag(fields[i].tag) \o serialize_nil)
          ELSE serialize_fields(fields[i].ty, v[i]))
         \o Pushes(fields, v, i + 1)

\* derive_struct, serialize_fields_body : the #( #pushes )*
Pushes(fields, v, i) ==
    IF i > Len(fields) THEN <<>>
    ELSE (IF fields[i].attr = "ordinary"
            THEN SerTag(fields[i].tag) \o Ser(fields[i].ty, v[i])
          ELSE IF fields[i].attr = "optional"
            THEN (IF v[i][1] = "Some"
                    THEN SerTag(fields[i].tag) \o Ser(fields[i].ty, v[i][2])
                    ELSE <<>>)
          ELSE serialize_fields(fields[i].ty, v[i]))
         \o Pushes(fields, v, i + 1)

\* StructSerialize::serialize_fields
serialize_fields(ty, v) == Pushes(Schema(ty).fields, v, 1)

\* an enum encoder that wraps every variant in an Array: [tag] for a unit or
\* empty-tuple variant, [tag, payload] for a single-field variant
serialize_variant_wrapped(fields, v) ==
    IF fields[v[1]].attr = "newtype"
    THEN serialize_array(2) \o SerTag(fields[v[1]].tag) \o Ser(fields[v[1]].ty, v[2])
    ELSE serialize_array(1) \o SerTag(fields[v[1]].tag)

\* derive_enum : match self { #( #clauses )* } ; v is <<variant index>> or
\* <<variant index, payload>>
serialize_variant(fields, v) ==
    IF fields[v[1]].attr = "newtype"
    THEN serialize_array(2) \o SerTag(fields[v[1]].tag) \o Ser(fields[v[1]].ty, v[2])
    ELSE SerTag(fields[v[1]].tag)

\* an untagged encoder that wraps the inner value in an Array of one item
serialize_untagged_variant_wrapped(fields, v) ==
    serialize_array(1) \o Ser(fields[v[1]].ty, v[2])

\* derive_untagged_enum : Self::#ident(__value) => __serializer.serialize(__value)
serialize_untagged_variant(fields, v) == Ser(fields[v[1]].ty, v[2])

Ser(ty, v) ==
    LET sch  == Schema(ty)
        kind == sch.kind
    IN
    CASE kind = "bool" -> serialize_bool(v)
      [] kind = "Int" -> serialize_int(v)
      [] kind = "u64" -> serialize_int(IntFromU64(v))
      [] kind = "i64" -> serialize_int(IntFromI64(v))
      [] kind \in {"u8", "u16", "u32"} -> serialize_int(IntFromUnsigned(v))
      [] kind \in {"i8", "i16", "i32"} -> serialize_int(IntFromSigned(v))
      [] kind = "f32" -> serialize_f32(v)
      [] kind = "f64" -> serialize_f64(v)
      [] kind \in {"Str", "String"} -> serialize_str(v)
      [] kind = "Nil" -> serialize_nil
      [] kind = "Empty" -> serialize_map(0)
      [] kind = "Vec" ->
            serialize_array(Len(v)) \o SerItems(sch.fields[1].ty, v, 1)
      [] kind = "Box" -> Ser(sch.fields[1].ty, v)
      [] kind = "Value" ->
           (CASE v[1] = "Nil" -> serialize_nil
              [] v[1] = "Bool" -> serialize_bool(v[2])
              [] v[1] = "Int" -> serialize_int(v[2])
              [] v[1] = "F32" -> serialize_f32(v[2])
              [] v[1] = "F64" -> serialize_f64(v[2])
              [] v[1] = "Str" -> serialize_str(v[2])
              [] v[1] = "Bin" -> serialize_bin(v[2])
              [] v[1] = "Array" -> serialize_array(Len(v[2])) \o SerValues(v[2], 1)
              [] v[1] = "Map" -> serialize_map(Len(v[2])) \o SerEntries(v[2], 1)
              [] v[1] = "Ext" -> serialize_ext(v[2], v[3]))
      [] kind = "struct" ->
            serialize_map(count_fields(ty, v)) \o serialize_fields(ty, v)
      [] kind \in {"untagged_struct", "tuple_struct"} ->
            serialize_array(Len(sch.fields)) \o SerMembers(sch.fields, v, 1)
      [] kind = "newtype_struct" -> Ser(sch.fields[1].ty, v[1])
      [] kind = "enum" -> serialize_variant(sch.fields, v)
      [] kind = "untagged_enum" -> serialize_untagged_variant(sch.fields, v)

(***************************************************************************)
(* Test data: the values the tests and property tests feed to the codec    *)
(***************************************************************************)
MaxDepth == 2       \* levels of Array / Map nesting built by arb_value
MaxEntries == 3     \* entries of a hand-built Map handed to a decoder
MaxItems == 2       \* items of a generated Vec / flat Array
MaxTokens == 2      \* deserialize_token calls made by hand before a typed decode

SeqsUpTo(S, n) == UNION { [1..k -> S] : k \in 0..n }

U(bytes) == IntFromU64(ZeroExt(bytes, 8))

N(bytes) == IntFromI64(SignExt(bytes, 8))

\* the integers at which the wire width changes, over -2^63 .. 2^64-1
IntSamples ==
    { U(<<0>>), U(<<1>>), U(<<42>>), U(<<127>>), U(<<128>>), U(<<255>>),
      U(<<1, 0>>), U(<<255, 255>>), U(<<1, 0, 0>>),
      U(<<255, 255, 255, 255>>), U(<<1, 0, 0, 0, 0>>),
      U(<<127>> \o Rep(255, 7)), U(<<128>> \o Rep(0, 7)), U(Rep(255, 8)),
      N(<<255>>), N(<<224>>), N(<<223>>), N(<<128>>), N(<<255, 127>>),
      N(<<128, 0>>), N(<<255, 127, 255>>), N(<<128, 0, 0, 0>>),
      N(<<255, 127, 255, 255, 255>>), N(<<128>> \o Rep(0, 7)) }

StrSamples ==
    { <<>>, <<120>>, <<74, 111, 104, 110>>, <<104, 101, 108, 108, 111>>,
      <<195, 169>>, <<255>>, <<195>>,
      Rep(97, 31), Rep(97, 32), Rep(97, 255), Rep(97, 256) }

Utf8Samples == { b \in StrSamples : IsUtf8(b) }

F32Samples == { Rep(0, 4), <<63, 128, 0, 0>>, <<127, 192, 0, 0>>, <<255, 128, 0, 1>> }

F64Samples == { Rep(0, 8), <<63, 240>> \o Rep(0, 6), <<127, 248>> \o Rep(0, 6) }

ExtLens == {0, 1, 2, 3, 4, 8, 16, 17, 255, 256}

Samples(kind) ==
    CASE kind = "bool" -> BOOLEAN
      [] kind = "Int" -> IntSamples
      [] kind = "u8" -> { <<0>>, <<5>>, <<127>>, <<128>>, <<255>> }
      [] kind = "u16" -> { <<0, 0>>, <<0, 255>>, <<1, 0>>, <<255, 255>> }
      [] kind = "u32" ->
            { FromNat(x, 4) : x \in {0, 3, 42, 127, 128, 255, 256, 65535, 65536} }
                \cup { <<127, 255, 255, 255>>, <<128, 0, 0, 0>>, Rep(255, 4) }
      [] kind = "u64" -> { n.value : n \in { m \in IntSamples : ~m.sign } }
      [] kind = "i8" -> { <<0>>, <<127>>, <<128>>, <<223>>, <<224>>, <<255>> }
      [] kind = "i16" -> { <<0, 0>>, <<0, 128>>, <<127, 255>>, <<128, 0>>, <<255, 127>> }
      [] kind = "i32" ->
            { Rep(0, 4), <<0, 0, 128, 0>>, <<127, 255, 255, 255>>,
              <<128, 0, 0, 0>>, <<255, 255, 127, 255>>, Rep(255, 4) }
      [] kind = "i64" -> { n.value : n \in { m \in IntSamples : I64TryFrom(m).ok } }
      [] kind = "f32" -> F32Samples
      [] kind = "f64" -> F64Samples
      [] kind = "Str" -> StrSamples
      [] kind = "String" -> Utf8Samples
      [] kind = "Nil" -> { <<"Nil">> }
      [] kind = "Empty" -> { <<"Empty">> }

\* the scalar Values (leaf of arb_value)
ScalarValues ==
    { <<"Nil">> }
        \cup { <<"Bool", b>> : b \in BOOLEAN }
        \cup { <<"Int", n>> : n \in IntSamples }
        \cup { <<"F32", f>> : f \in F32Samples }
        \cup { <<"F64", f>> : f \in F64Samples }
        \cup { <<"Str", b>> : b \in StrSamples }
        \cup { <<"Bin", b>> : b \in { <<>>, <<0, 255>>, Rep(7, 255), Rep(7, 256) } }
        \cup { <<"Ext", t, Rep(9, n)>> : t \in {1, 255}, n \in ExtLens }

VInt(x) == <<"Int", U(<<x>>)>>

VStr(b) == <<"Str", b>>

\* small Values used as the children of generated composites
ChildValues ==
    { <<"Nil">>, VInt(1), VStr(<<120>>),
      <<"Array", << VInt(2), <<"Array", << <<"Nil">> >> >> >> >>,
      <<"Map", << << VInt(0), <<"Array", <<>> >> >> >> >> }

FlatArrays == { <<"Array", a>> : a \in SeqsUpTo(ChildValues, MaxItems) }

\* the entries of the Maps handed to the struct decoders: declared tags with
\* well-typed and ill-typed values, undeclared tags with scalar and nested
\* values, and keys that are not u32
MapEntries ==
    { << VInt(0), VInt(42) >>,
      << VInt(0), VInt(43) >>,
      << VInt(0), <<"Bool", TRUE>> >>,
      << VInt(2), VStr(<<74, 111, 104, 110>>) >>,
      << VInt(1), VInt(43) >>,
      << VInt(7), <<"Bool", TRUE>> >>,
      << VInt(7), <<"Map", << << VInt(0), <<"Array", << VInt(1), <<"Nil">> >> >> >> >> >> >>,
      << <<"Int", U(Rep(255, 4))>>, <<"Array", << <<"Array", << VInt(0) >> >> >> >> >>,
      << <<"Int", N(<<255>>)>>, VInt(1) >> }

FlatMaps == { <<"Map", m>> : m \in SeqsUpTo(MapEntries, MaxEntries) }

\* the Maps handed to the decoders of the structs with a #[flatten] field
\* (test.rs deserialize_struct_flatten): the entries { 2: 42, 1: 43, 0: true }
\* and every subset of them, in every order
FlattenMaps ==
    LET e == { << VInt(2), VInt(42) >>, << VInt(1), VInt(43) >>,
               << VInt(0), <<"Bool", TRUE>> >> }
    IN  { <<"Map", m>> :
            m \in { s \in SeqsUpTo(e, Cardinality(e)) :
                       \A i, j \in 1..Len(s) : s[i] = s[j] => i = j } }

\* Maps with the entries { 0: 42, 2: "John" } of a Human and one further pair
\* whose key no u32 holds: nil, a string, a negative integer, 2^32
ExtraKeyMaps ==
    LET age   == << VInt(0), VInt(42) >>
        name  == << VInt(2), VStr(<<74, 111, 104, 110>>) >>
        keys  == { <<"Nil">>, VStr(<<107>>), <<"Int", N(<<255>>)>>,
                   <<"Int", U(<<1, 0, 0, 0, 0>>)>> }
        extra == { << k, x >> : k \in keys, x \in { VInt(1), <<"Array", << <<"Nil">> >> >> } }
    IN  { <<"Map", << e, age, name >> >> : e \in extra }
           \cup { <<"Map", << age, e, name >> >> : e \in extra }
           \cup { <<"Map", << age, name, e >> >> : e \in extra }

\* the Arrays handed to the enum, tuple struct and untagged struct decoders
\* (test.rs deserialize_tuple_variants, deserialize_tuple_struct_wrong_length):
\* [tag, payload] for declared and undeclared tags, members of the right and
\* of the wrong type, and the same with an item less or an item more
HandArrays ==
    LET hello == VStr(<<104, 101, 108, 108, 111>>)
        pairs == { << VInt(t), x >> : t \in 1..5, x \in { hello, VInt(42) } }
                    \cup { << VInt(42), <<"Bool", TRUE>> >>,
                           << VInt(42), hello >>,
                           << hello, VInt(42) >> }
    IN  { <<"Array", a>> : a \in pairs }
            \cup { <<"Array", <<a[1]>> >> : a \in pairs }
            \cup { <<"Array", a \o <<a[2]>> >> : a \in pairs }

RECURSIVE Depth(_)
RECURSIVE MaxOver(_, _)
MaxOver(items, i) ==
    IF i > Len(items) THEN 0
    ELSE LET a == Depth(items[i])
             b == MaxOver(items, i + 1)
         IN  IF a > b THEN a ELSE b

\* nesting depth of a Value built by the generator (keys are scalars here)
Depth(v) ==
    IF v[1] = "Array" THEN 1 + MaxOver(v[2], 1)
    ELSE IF v[1] = "Map" THEN 1 + MaxOver([i \in 1..Len(v[2]) |-> v[2][i][2]], 1)
    ELSE 0

\* the leaves around which arb_value builds nested composites
NestSeeds ==
    { <<"Nil">>, <<"Int", U(<<1, 44>>)>>, VStr(<<120>>),
      <<"Bin", <<0, 255>> >>, <<"Ext", 255, <<9, 9>> >> }

\* the recursive cases of arb_value around an inner value
Wraps(v) ==
    { <<"Array", <<v>> >>,
      <<"Array", << <<"Nil">>, v >> >>,
      <<"Map", << << VInt(1), v >> >> >>,
      <<"Map", << << VStr(<<107>>), v >>, << VStr(<<107>>), <<"Nil">> >> >> >> }

RECURSIVE ValuesOf(_)
RECURSIVE Products(_, _)

\* the sequences of one value per field, fields i .. n
Products(fields, i) ==
    IF i > Len(fields) THEN { <<>> }
    ELSE LET here == IF fields[i].attr = "optional"
                        THEN { <<"None">> } \cup
                             { <<"Some", x>> : x \in ValuesOf(fields[i].ty) }
                        ELSE ValuesOf(fields[i].ty)
         IN  { <<x>> \o rest_ : x \in here, rest_ \in Products(fields, i + 1) }

\* the values of a declared type that the property tests generate
ValuesOf(ty) ==
    LET sch  == Schema(ty)
        kind == sch.kind
    IN
    CASE kind \in {"struct", "untagged_struct", "tuple_struct", "newtype_struct"} ->
            Products(sch.fields, 1)
      [] kind \in {"enum", "untagged_enum"} ->
            UNION { IF sch.fields[i].attr = "newtype"
                        THEN { <<i, x>> : x \in ValuesOf(sch.fields[i].ty) }
                        ELSE { <<i>> } : i \in 1..Len(sch.fields) }
      [] kind = "Vec" -> SeqsUpTo(ValuesOf(sch.fields[1].ty), MaxItems)
      [] kind = "Box" -> ValuesOf(sch.fields[1].ty)
      [] kind = "Value" -> { <<"Nil">>, VInt(5), VStr(<<120>>), <<"Array", << VInt(1) >> >> }
      [] OTHER -> Samples(kind)

(***************************************************************************)
(* The state machine: a test generates a value, serializes it, creates a   *)
(* Deserializer over some bytes and runs Deserializer operations on it.    *)
(***************************************************************************)
MaxTruncLen == 8    \* serialized forms up to this length are also fed truncated

\* the types handed to serialize()
SerTypes ==
    { "bool", "Int", "u8", "u16", "u32", "u64", "i8", "i16", "i32", "i64",
      "f32", "f64", "Str", "String", "VecI32", "BoxI32", "Nil", "Empty",
      "Human", "HumanOpt", "S1", "S2", "S2Clash", "Nested", "HumanU", "Newtype",
      "Tuple", "Animal", "AnimalU", "Trial" }

\* the types D every input is decoded into; an input that was serialized from
\* a value of type T is decoded into T as well
DeTypes ==
    { "bool", "u8", "u32", "i64", "String", "Value", "Any", "VecBool",
      "Human", "HumanOpt", "S1", "S2", "Nested", "HumanU", "Newtype", "Tuple",
      "Animal", "AnimalU", "Trial" }

\* the types D of try_deserialize::<D>()
TryTypes == { "u8", "String", "Value", "Human", "Tuple", "Animal", "AnimalU", "Trial" }

\* bytes that may follow the first value of an input
Trailing == { <<193>>, <<1>>, <<192, 193>> }

NoOut == [op |-> "none", ty |-> "", pre |-> <<>>, res |-> "", val |-> <<>>]

Out(op, ty, pre, d) ==
    [op |-> op, ty |-> ty, pre |-> pre, res |-> d.res, val |-> d.val]

Init ==
    /\ pc = "gen"
    /\ src = <<>>
    /\ w = <<>>
    /\ input = <<>>
    /\ r = <<>>
    /\ out = NoOut
    /\ nops = 0

\* proptest: an arbitrary value of a type (any::<T>(), derive(Arbitrary))
Arbitrary ==
    /\ pc = "gen" /\ src = <<>>
    /\ \E ty \in SerTypes : \E v \in ValuesOf(ty) : src' = <<ty, v>>
    /\ UNCHANGED <<pc, w, input, r, out, nops>>

\* tests/test.rs arb_value : a leaf, or a composite around smaller values
ArbValue ==
    /\ pc = "gen"
    /\ \/ /\ src = <<>>
          /\ \E v \in ScalarValues \cup FlatArrays : src' = <<"Value", v>>
       \/ /\ src # <<>> /\ src[1] = "Value"
          /\ Depth(src[2]) < MaxDepth
          /\ src[2] \in NestSeeds \/ (Depth(src[2]) > 0 /\ src[2] \notin FlatArrays)
          /\ \E v \in Wraps(src[2]) : src' = <<"Value", v>>
    /\ UNCHANGED <<pc, w, input, r, out, nops>>

\* pub fn serialize<S: Serialize>(s: S) -> Vec<u8>
Serialize ==
    /\ pc = "gen" /\ src # <<>>
    /\ w' = Ser(src[1], src[2])
    /\ pc' = "ser"
    /\ UNCHANGED <<src, input, r, out, nops>>

\* Deserializer::new over the serialized bytes, over a truncation of them, or
\* over them followed by further bytes
NewDeserializer ==
    /\ pc = "ser"
    /\ \E b \in {w} \cup { w \o t : t \in Trailing }
                    \cup { Take(w, n) : n \in { k \in 0..(Len(w) - 1) : Len(w) <= MaxTruncLen } } :
          /\ input' = b
          /\ r' = b
    /\ pc' = "de"
    /\ UNCHANGED <<src, w, out, nops>>

\* the tests' deserialize_from_value : a Deserializer over the wire form of a
\* hand-built Map or Array
FromValue ==
    /\ pc = "gen" /\ src = <<>>
    /\ \E m \in FlatMaps \cup FlattenMaps \cup ExtraKeyMaps \cup HandArrays :
          /\ src' = <<"Value", m>>
          /\ w' = Ser("Value", m)
          /\ input' = Ser("Value", m)
          /\ r' = Ser("Value", m)
    /\ pc' = "de"
    /\ UNCHANGED <<out, nops>>

\* byte strings that no serializer call of the tests writes: the 16- and
\* 32-bit headers, headers whose length prefix or payload ends early, the
\* reserved marker, and headers that announce up to 2^32-1 children
RawInputs ==
    { << 220, 0, 16 >>, << 221, 0, 1, 0, 0 >>,
      << 222, 0, 16 >>, << 223, 0, 1, 0, 0 >>,
      << 219, 0, 0, 0, 1, 97 >>, << 198, 0, 0, 0, 1, 7 >>,
      << 201, 0, 0, 0, 1, 5, 9 >>,
      << 221, 0, 1 >>, << 222, 0 >>, << 219, 0, 0, 0, 2, 97 >>,
      << 201, 0, 0, 0, 1, 5 >>, << 199, 1 >>,
      << 193 >>, << 193, 1 >>,
      << 221, 255, 255, 255, 255 >>, << 223, 255, 255, 255, 255 >>,
      << 223, 128, 0, 0, 0 >>, << 223, 128, 0, 0, 0, 192 >>,
      << 146, 221, 255, 255, 255, 255 >>,
      << 146, 221, 255, 255, 255, 255, 192 >>,
      << 130, 7, 223, 128, 0, 0, 0, 0, 42 >>,
      << 130, 7, 146, 221, 255, 255, 255, 255, 0, 42 >> }

\* a Deserializer over bytes that come from elsewhere
FromBytes ==
    /\ pc = "gen" /\ src = <<>>
    /\ \E b \in RawInputs :
          /\ w' = b
          /\ input' = b
          /\ r' = b
    /\ pc' = "de"
    /\ UNCHANGED <<src, out, nops>>

\* the results a build can give: the overflow-checking build traps where the
\* wrapping build goes on; without an overflow the two agree
Builds(checked, wrapping) ==
    IF checked.res = "panic" THEN {checked, wrapping} ELSE {checked}

Finish(op, ty, d, next) ==
    /\ out' = Out(op, ty, r, d)
    /\ r' = d.rest
    /\ pc' = IF d.res = "ok" THEN next ELSE "failed"
    /\ nops' = nops + 1
    /\ UNCHANGED <<src, w, input>>

\* Deserializer::deserialize_token, called by hand before a typed decode
DeserializeToken ==
    /\ pc = "de" /\ nops < MaxTokens
    /\ Finish("deserialize_token", "", deserialize_token(r), "de")

\* Deserializer::deserialize::<D>
Deserialize ==
    /\ pc = "de"
    /\ \E ty \in DeTypes \cup (IF src = <<>> THEN {} ELSE {src[1]}) :
          \E d \in Builds(Deser("checked", ty, r), Deser("wrapping", ty, r)) :
             Finish("deserialize", ty, d, "done")

\* Deserializer::try_deserialize::<D>
TryDeserialize ==
    /\ pc = "de"
    /\ \E ty \in TryTypes :
          \E d \in Builds(try_deserialize("checked", ty, r),
                          try_deserialize("wrapping", ty, r)) :
             Finish("try_deserialize", ty, d, "done")

\* Deserializer::deserialize_any
DeserializeAny ==
    /\ pc = "de"
    /\ \E d \in Builds(deserialize_any("checked", r), deserialize_any("wrapping", r)) :
          Finish("deserialize_any", "", d, "done")

\* the types D of the free function deserialize::<D>(bytes); a value of type
\* T is read back as T as well
TopTypes == { "Int", "u8", "Value", "Human", "Animal" }

\* a top-level decode that demands that the value ends where the bytes end
deserialize_all(p, ty, data) ==
    IF Deser(p, ty, data).res = "ok" /\ Deser(p, ty, data).rest # <<>>
    THEN Invalid(<<>>)
    ELSE Res(Deser(p, ty, data).res, Deser(p, ty, data).val, <<>>)

\* pub fn deserialize<D: Deserialize>(r: &[u8]) -> Result<D, DeserializeError> :
\* a Deserializer over r, one deserialize(), and the Deserializer is dropped
deserialize(p, ty, data) ==
    Res(Deser(p, ty, data).res, Deser(p, ty, data).val, <<>>)

\* deserialize::<D>(bytes) over the serialized bytes, alone or followed by
\* further bytes
DeserializeBytes ==
    /\ pc = "ser"
    /\ \E b \in {w} \cup { w \o t : t \in Trailing } :
       \E ty \in TopTypes \cup {src[1]} :
       \E d \in Builds(deserialize("checked", ty, b), deserialize("wrapping", ty, b)) :
          /\ input' = b
          /\ out' = Out("deserialize_bytes", ty, b, d)
          /\ r' = d.rest
          /\ pc' = IF d.res = "ok" THEN "done" ELSE "failed"
    /\ UNCHANGED <<src, w, nops>>

\* the keys handed to value[key]
IndexKeys == { <<107>>, <<120>> }

\* a lookup that returns the value of the first entry with the key
index_first(key, v) ==
    IF v[1] # "Map" THEN [res |-> "panic", val |-> <<>>]
    ELSE LET hit == { i \in 1..Len(v[2]) : v[2][i][1] = <<"Str", key>> } IN
         IF hit = {} THEN [res |-> "panic", val |-> <<>>]
         ELSE [res |-> "ok",
               val |-> v[2][CHOOSE i \in hit : \A j \in hit : i <= j][2]]

\* impl Index for str : for (key, value) in map.iter().rev() { .. return value }
\* and the panics of expect("not indexable by str") and "key not found"
index(key, v) ==
    IF v[1] # "Map" THEN [res |-> "panic", val |-> <<>>]
    ELSE LET hit == { i \in 1..Len(v[2]) : v[2][i][1] = <<"Str", key>> } IN
         IF hit = {} THEN [res |-> "panic", val |-> <<>>]
         ELSE [res |-> "ok",
               val |-> v[2][CHOOSE i \in hit : \A j \in hit : i >= j][2]]

\* value["key"] on a decoded Value::Map or Value::Array
Index ==
    /\ pc = "done"
    /\ out.op = "deserialize" /\ out.ty = "Value" /\ out.res = "ok"
    /\ out.val[1] \in {"Map", "Array"}
    /\ \E key \in IndexKeys :
          out' = [op |-> "index", ty |-> "Value", pre |-> out.pre,
                  res |-> index(key, out.val).res,
                  val |-> <<key, out.val, index(key, out.val).val>>]
    /\ UNCHANGED <<pc, src, w, input, r, nops>>

Next ==
    \/ Arbitrary
    \/ ArbValue
    \/ Serialize
    \/ NewDeserializer
    \/ FromValue
    \/ FromBytes
    \/ DeserializeToken
    \/ Deserialize
    \/ TryDeserialize
    \/ DeserializeAny
    \/ DeserializeBytes
    \/ Index

Spec == Init /\ [][Next]_vars

(***************************************************************************)
(* The conversions of msgpack-value on their own (tests roundtrip_int): a  *)
(* native integer is converted into an Int, or an Int is taken as it is,   *)
(* and the Int is converted into a native type.                            *)
(***************************************************************************)
IntTypes == { "u8", "u16", "u32", "u64", "i8", "i16", "i32", "i64" }

\* impl From<T> for Int, T a native integer type
IntFromNative(ty, x) ==
    IF ty = "u64" THEN IntFromU64(x)
    ELSE IF ty = "i64" THEN IntFromI64(x)
    ELSE IF UnsignedWidth(ty) > 0 THEN IntFromUnsigned(x)
    ELSE IntFromSigned(x)

InitInt ==
    /\ pc = "native"
    /\ src = <<>>
    /\ w = <<>>
    /\ input = <<>>
    /\ r = <<>>
    /\ out = NoOut
    /\ nops = 0

\* Int::from(x) for a native x
IntFrom ==
    /\ pc = "native"
    /\ \E ty \in IntTypes : \E x \in Samples(ty) :
          /\ src' = <<ty, x>>
          /\ out' = [op |-> "from", ty |-> ty, pre |-> x, res |-> "ok",
                     val |-> IntFromNative(ty, x)]
    /\ pc' = "int"
    /\ UNCHANGED <<w, input, r, nops>>

\* the wire forms of integers: every marker, with the least and the greatest
\* field, and non-negative values behind the signed markers
IntWires ==
    { << 0 >>, << 5 >>, << 127 >>, << 224 >>, << 255 >> }
        \cup { << m >> \o f :
                 m \in { 204, 208 }, f \in { << 0 >>, << 5 >>, << 127 >>, << 128 >>, << 255 >> } }
        \cup { << m >> \o f :
                 m \in { 205, 209 },
                 f \in { << 0, 5 >>, << 127, 255 >>, << 128, 0 >>, << 255, 255 >> } }
        \cup { << m >> \o f :
                 m \in { 206, 210 },
                 f \in { << 0, 0, 0, 5 >>, << 127 >> \o Rep(255, 3),
                         << 128 >> \o Rep(0, 3), Rep(255, 4) } }
        \cup { << m >> \o f :
                 m \in { 207, 211 },
                 f \in { Rep(0, 7) \o << 5 >>, << 127 >> \o Rep(255, 7),
                         << 128 >> \o Rep(0, 7), Rep(255, 8) } }

\* the Int of the Token::Int that deserialize_token reads from a wire form
TokenInt ==
    /\ pc = "native"
    /\ \E b \in IntWires :
          out' = [op |-> "token", ty |-> "", pre |-> b, res |-> deserialize_token(b).res,
                  val |-> deserialize_token(b).val[2]]
    /\ pc' = "int"
    /\ UNCHANGED <<src, w, input, r, nops>>

\* an Int that some earlier conversion produced
ArbInt ==
    /\ pc = "native"
    /\ \E n \in IntSamples :
          out' = [op |-> "int", ty |-> "", pre |-> <<>>, res |-> "ok", val |-> n]
    /\ pc' = "int"
    /\ UNCHANGED <<src, w, input, r, nops>>

\* T::try_from(n) for the Int n at hand
IntTryFrom ==
    /\ pc = "int"
    /\ \E ty \in IntTypes :
          out' = [op |-> "try_from", ty |-> ty, pre |-> out.val,
                  res |-> IF Narrow(ty, out.val).ok THEN "ok" ELSE "range",
                  val |-> Narrow(ty, out.val).v]
    /\ pc' = "converted"
    /\ UNCHANGED <<src, w, input, r, nops>>

NextInt ==
    \/ IntFrom
    \/ TokenInt
    \/ ArbInt
    \/ IntTryFrom

SpecInt == InitInt /\ [][NextInt]_vars

TypeOK ==
    /\ pc \in {"gen", "ser", "de", "done", "failed"}
    /\ nops \in 0..(MaxTokens + 1)
    /\ \A i \in 1..Len(w) : w[i] \in Byte
    /\ \A i \in 1..Len(r) : r[i] \in Byte
    /\ out.res \in {"", "ok", "validation", "invalid", "panic"}

(***************************************************************************)
(* Properties                                                              *)
(***************************************************************************)
\* the last operation was deserialize::<ty>()
Decoded(ty) == out.op = "deserialize" /\ out.ty = ty

\* the last operation started at the first byte of the serialized form of src
\* and had all of it, and nothing else, before it
Whole == src # <<>> /\ out.op # "none" /\ out.pre = w

\* the input is the wire form of a Value::Map ; its entries
FromMap == src # <<>> /\ src[1] = "Value" /\ src[2][1] = "Map"

Entries == src[2][2]

\* a key that the struct decoder reads as a u32 tag ; the tag
IsTag(k) == k[1] = "Int" /\ UnsignedTryFrom(k[2], 4).ok

TagOf(k) == UnsignedTryFrom(k[2], 4).v

RECURSIVE DeclaredTags(_)
\* the tags a tagged struct declares, those of its flattened fields included
DeclaredTags(ty) ==
    LET f == Schema(ty).fields IN
    UNION { IF f[i].attr = "flatten" THEN DeclaredTags(f[i].ty)
                                     ELSE { FromNat(f[i].tag, 4) } : i \in 1..Len(f) }

RECURSIVE Pick(_, _, _)
\* the entries e[i ..] whose index is in keep, in order
Pick(e, keep, i) ==
    IF i > Len(e) THEN <<>>
    ELSE (IF i \in keep THEN <<e[i]>> ELSE <<>>) \o Pick(e, keep, i + 1)

TaggedStructs == { "Human", "HumanOpt", "S1", "S2", "Nested" }

DerivedTypes ==
    { "Human", "HumanOpt", "S1", "S2", "Nested", "HumanU", "Newtype", "Tuple",
      "Animal" }

\* two entries of the map carry the same tag, and ty declares that tag
DuplicateTag(ty) ==
    /\ FromMap
    /\ \E i, j \in 1..Len(Entries) :
          /\ i < j
          /\ IsTag(Entries[i][1])
          /\ Entries[i][1] = Entries[j][1]
          /\ TagOf(Entries[i][1]) \in DeclaredTags(ty)

\* the indices of the entries that are not duplicated later in the map
LastOnes(ty) ==
    { i \in 1..Len(Entries) :
         ~\E j \in (i + 1)..Len(Entries) :
              /\ IsTag(Entries[i][1])
              /\ Entries[i][1] = Entries[j][1]
              /\ TagOf(Entries[i][1]) \in DeclaredTags(ty) }

\* the indices of the entries whose key is not an integer tag ty leaves undeclared
Kept(ty) ==
    { i \in 1..Len(Entries) :
         ~(IsTag(Entries[i][1]) /\ TagOf(Entries[i][1]) \notin DeclaredTags(ty)) }

\* the inner decode of variant i of the untagged enum last decoded, run on
\* its own from the cursor position the enum's decode started at
Inner(i) == Deser("checked", Schema(out.ty).fields[i].ty, out.pre)

UntaggedDecoded ==
    out.op = "deserialize" /\ Schema(out.ty).kind = "untagged_enum"

Variants == 1..Len(Schema(out.ty).fields)

\* C1: for every Value v (Nil, Bool, Int over -2^63 .. 2^64-1, F32, F64, Str,
\* Bin, Ext, Array and Map nested to a bounded depth and width),
\* deserialize::<Value>(serialize(v)) succeeds, equals v and leaves no byte
\* unread. A float is its IEEE-754 bit pattern here, so equality of floats is
\* equality of their bits, NaN payloads included.
ValueRoundTrip ==
    (Whole /\ src[1] = "Value" /\ Decoded("Value"))
        => (out.res = "ok" /\ out.val = src[2] /\ r = <<>>)

WitnessValueRoundTrip ==
    /\ Whole /\ src[1] = "Value" /\ Decoded("Value")
    /\ src[2][1] = "Map" /\ Depth(src[2]) = MaxDepth
    /\ out.res = "ok" /\ out.val = src[2]

\* C2: for every value v of a derived tagged struct (with or without optional
\* fields, with a flattened field), untagged struct, newtype struct, tuple
\* struct or tagged enum, deserialize(serialize(v)) succeeds and equals v; and
\* for the wire form m that serialize produces, serialize(deserialize(m)) is m.
DerivedRoundTrip ==
    (Whole /\ src[1] \in DerivedTypes /\ Decoded(src[1]))
        => /\ out.res = "ok" /\ out.val = src[2] /\ r = <<>>
           /\ Ser(out.ty, out.val) = w

WitnessDerivedRoundTrip ==
    /\ Whole /\ src[1] = "HumanOpt" /\ Decoded("HumanOpt")
    /\ src[2][2] = <<"None">>
    /\ out.res = "ok" /\ out.val = src[2] /\ Ser(out.ty, out.val) = w

\* C3: decoding a Map into a derived tagged struct fails with a validation
\* error (the schema-level DuplicatedField) whenever two entries carry the
\* same declared tag, whichever occurrence holds the well-typed value and
\* wherever the two entries sit in the map.
DuplicateTagValidationError ==
    \A ty \in TaggedStructs :
        (Whole /\ Decoded(ty) /\ DuplicateTag(ty)) => out.res = "validation"

UnknownKeysIgnored ==
    \A ty \in TaggedStructs :
        (Whole /\ Decoded(ty) /\ FromMap /\ Kept(ty) # 1..Len(Entries))
        => LET base == Deser("checked", ty,
                             Ser("Value", <<"Map", Pick(Entries, Kept(ty), 1)>>))
           IN  base.res = "ok"
                  => (out.res = "ok" /\ out.val = base.val /\ r = <<>>)

WitnessUnknownKeysIgnored ==
    /\ Whole /\ Decoded("Human") /\ FromMap
    /\ Len(Entries) = 3
    /\ Entries[1][1] = VInt(0)
    /\ Entries[2][1] = VInt(7) /\ Entries[2][2][1] = "Map"
    /\ Entries[3][1] = VInt(2)
    /\ out.res = "ok"
    /\ out.val = << FromNat(42, 4), <<74, 111, 104, 110>> >>

\* C6: for a tagged struct with an #[optional] field of type Option<T>
\* (HumanOpt: age with tag 0, optional name with tag 2), serialize writes the
\* field's (tag, value) entry exactly when the field is Some: Some gives a Map
\* with the key, None a Map one entry shorter without it; and decoding a Map
\* that lacks the key succeeds with the field set to None.
OptionalOmission ==
    /\ (src # <<>> /\ src[1] = "HumanOpt" /\ pc # "gen")
        => LET m   == Deser("checked", "Value", w)
               age == << VInt(0), <<"Int", IntFromUnsigned(src[2][1])>> >>
           IN  /\ m.res = "ok" /\ m.rest = <<>> /\ m.val[1] = "Map"
               /\ src[2][2][1] = "Some"
                    => m.val[2] = << age, << VInt(2), VStr(src[2][2][2]) >> >>
               /\ src[2][2][1] = "None"
                    => m.val[2] = << age >>
    /\ (Whole /\ Decoded("HumanOpt") /\ FromMap
          /\ \A i \in 1..Len(Entries) : Entries[i][1] # VInt(2))
        => /\ out.res = "ok" => out.val[2] = <<"None">>
           /\ (/\ \A i \in 1..Len(Entries) : IsTag(Entries[i][1])
               /\ \E i \in 1..Len(Entries) :
                     /\ Entries[i][1] = VInt(0)
                     /\ IsTag(Entries[i][2])
                     /\ \A j \in 1..Len(Entries) : Entries[j][1] = VInt(0) => j = i)
              => out.res = "ok"

WitnessOptionalOmission ==
    /\ Whole /\ Decoded("HumanOpt") /\ FromMap
    /\ Entries = << << VInt(0), VInt(42) >> >>
    /\ out.res = "ok"
    /\ out.val = << FromNat(42, 4), <<"None">> >>

\* C7: decoding an untagged enum tries the variants in declaration order and
\* returns the first variant whose inner type decodes successfully, whatever
\* the variants declared after it would do; when every variant's inner decode
\* fails with a validation error the result is a validation error.
UntaggedDeclarationOrder ==
    UntaggedDecoded
        => /\ \A i \in Variants :
                (/\ Inner(i).res = "ok"
                 /\ \A j \in 1..(i - 1) : Inner(j).res = "validation")
                => /\ out.res = "ok"
                   /\ out.val = <<i, Inner(i).val>>
                   /\ r = Inner(i).rest
           /\ (\A i \in Variants : Inner(i).res = "validation")
                => out.res = "validation"

\* the integer 5 read as Trial: the u8 variant wins over the later Value variant
WitnessUntaggedDeclarationOrder ==
    /\ UntaggedDecoded /\ out.ty = "Trial"
    /\ out.res = "ok" /\ out.val = <<4, <<5>> >>
    /\ Inner(6).res = "ok"

\* C8: try_deserialize::<D>: when decoding D fails with a validation error it
\* returns Ok(None) and the cursor is exactly at its position before the
\* attempt, however many tokens the failed attempt had read; when decoding
\* succeeds it returns Ok(Some(v)) and the cursor is just past the value.
TryDeserializeCursor ==
    out.op = "try_deserialize"
        => LET d == Deser("checked", out.ty, out.pre) IN
           /\ d.res = "validation"
                => (out.res = "ok" /\ out.val = <<"None">> /\ r = out.pre)
           /\ d.res = "ok"
                => /\ out.res = "ok" /\ out.val = <<"Some", d.val>>
                   /\ r = d.rest
                   /\ \E n \in 1..Len(out.pre) : r = Drop(out.pre, n)

\* a failed attempt made in the middle of the input that had read three bytes
\* or more before it failed
WitnessTryDeserializeCursor ==
    /\ out.op = "try_deserialize" /\ out.val = <<"None">>
    /\ out.pre # input /\ r = out.pre
    /\ Len(out.pre) - Len(Deser("checked", out.ty, out.pre).rest) >= 3

\* C9: in untagged-enum trial decoding, an InvalidInput error raised while
\* trying a variant (the variants before it having failed with validation
\* errors) is the result of the whole decode, whatever the variants declared
\* after it would do.
InvalidInputEndsTrial ==
    UntaggedDecoded
        => \A i \in Variants :
              (/\ Inner(i).res = "invalid"
               /\ \A j \in 1..(i - 1) : Inner(j).res = "validation")
              => (out.res = "invalid" /\ out.val = <<>>)

\* truncated bytes on which the second variant runs out of input although
\* the third variant would decode
WitnessInvalidInputEndsTrial ==
    /\ UntaggedDecoded /\ out.ty = "Trial"
    /\ out.pre # w
    /\ Inner(1).res = "validation" /\ Inner(2).res = "invalid"
    /\ Inner(3).res = "ok"
    /\ out.res = "invalid"

\* C10: in untagged-enum trial decoding every schema-level failure of a
\* variant's inner decode, a duplicated field included, makes the decoder try
\* the next variant. When the bytes at the cursor are one complete MessagePack
\* value no failure of an inner decode is a wire-level one, so the decode ends
\* with the first variant that decodes, or with a validation error if none does.
TrialRecoversFromSchemaFailure ==
    (UntaggedDecoded /\ Deser("checked", "Value", out.pre).res = "ok")
        => LET oks == { i \in Variants : Inner(i).res = "ok" } IN
           IF oks = {} THEN out.res = "validation"
           ELSE /\ out.res = "ok"
                /\ \A j \in oks : out.val[1] <= j

\* the complete MessagePack value at the cursor position the last operation
\* started at: one scalar token, or one Array/Map header with all its children
ValueAtCursor == Deser("checked", "Value", out.pre)

\* C11: whenever deserialize::<D>() of a primitive, a Value or a derived type
\* succeeds, the cursor has advanced past exactly one complete well-formed
\* value: the bytes consumed are those of the one value that starts at the
\* cursor, no byte of it is left unread and no byte after it is consumed.
DecodeConsumesOneValue ==
    (out.op = "deserialize" /\ out.ty # "Any" /\ out.res = "ok")
        => (ValueAtCursor.res = "ok" /\ r = ValueAtCursor.rest)

\* the Value k is an integer that, read as a u32 tag, names a variant of the
\* tagged enum ty whose shape is one of attrs
NamesVariant(ty, k, attrs) ==
    /\ IsTag(k)
    /\ \E i \in 1..Len(Schema(ty).fields) :
          /\ FromNat(Schema(ty).fields[i].tag, 4) = TagOf(k)
          /\ Schema(ty).fields[i].attr \in attrs

\* C12: decoding a tagged enum (Animal: Cat(String) = 1, Dog(u32) = 2,
\* Bird = 3, Fish() = 4) accepts a bare Int only when it names a unit or
\* empty-tuple variant and an Array of length 2 only when its element 0 names a
\* single-field variant; a bare Int naming a single-field variant, an Array(2)
\* whose tag names a unit or empty-tuple variant, an Array of any other length,
\* an undeclared tag and any other token all fail with a validation error.
EnumTagShapes ==
    (out.op = "deserialize" /\ out.ty = "Animal" /\ ValueAtCursor.res = "ok")
        => LET v == ValueAtCursor.val IN
           IF v[1] = "Int" /\ NamesVariant("Animal", v, {"unit", "empty"})
             THEN out.res = "ok"
           ELSE IF /\ v[1] = "Array" /\ Len(v[2]) = 2
                   /\ NamesVariant("Animal", v[2][1], {"newtype"})
             THEN out.res \in {"ok", "validation"}
           ELSE out.res = "validation"

\* src is a value of ty and has just been serialized into w
Serialized(ty) == src # <<>> /\ src[1] = ty /\ pc = "ser"

\* C13: serializing a tagged enum (Animal) writes, for a unit or empty-tuple
\* variant with tag t, only the integer t, a single fixint byte as the tags
\* are within 0 .. 127; and for a single-field variant with tag t and payload
\* p, the Array(2) header (0x92), the integer t and then the encoding of p.
EnumWireShape ==
    Serialized("Animal")
        => LET f == Schema("Animal").fields[src[2][1]] IN
           /\ f.tag \in 0..127
           /\ f.attr \in {"unit", "empty"} => w = << f.tag >>
           /\ f.attr = "newtype" => w = << 146, f.tag >> \o Ser(f.ty, src[2][2])

\* Animal::Dog(42) serialized into 92 02 2A
WitnessEnumWireShape ==
    /\ Serialized("Animal")
    /\ src[2] = << 2, FromNat(42, 4) >>
    /\ w = << 146, 2, 42 >>

\* the token at the cursor position the last operation started at
TokenAtCursor == deserialize_token(out.pre)

ArrayStructs == { "HumanU", "Tuple" }

\* C14: decoding into an untagged struct (HumanU, 2 fields) or a tuple struct
\* (Tuple, 2 fields) succeeds only when the token read is Array(L) with L
\* equal to the number of fields; Array(L) with L smaller or larger (1 or 3
\* for 2 fields) fails with a validation error, and a token that is not an
\* Array fails with a validation error.
ArrayArity ==
    (out.op = "deserialize" /\ out.ty \in ArrayStructs /\ TokenAtCursor.res = "ok")
        => LET t == TokenAtCursor.val
               n == Len(Schema(out.ty).fields)
           IN  /\ t[1] # "Array" => out.res = "validation"
               /\ (t[1] = "Array" /\ t[2] # FromNat(n, 4)) => out.res = "validation"
               /\ out.res = "ok" => (t[1] = "Array" /\ t[2] = FromNat(n, 4))

\* [42, true, true] read as struct Tuple(u32, bool): 3 items for 2 fields
WitnessArrayArity ==
    /\ out.op = "deserialize" /\ out.ty = "Tuple"
    /\ out.pre = << 147, 42, 195, 195 >>
    /\ out.res = "validation"

RECURSIVE CountValues(_, _)
\* n plus the number of complete MessagePack values that the bytes b are
\* made of, or -1 when b is not a sequence of complete values
CountValues(b, n) ==
    IF b = <<>> THEN n
    ELSE LET d == deserialize_any("checked", b) IN
         IF d.res # "ok" THEN 0 - 1
         ELSE CountValues(d.rest, n + 1)

\* the Value that the serialized bytes w decode to
ValueOfW == Deser("checked", "Value", w)

\* the tagged structs that are serialized: required fields only, an optional
\* field, a #[flatten] field, a #[flatten] field inside a #[flatten] field
SerStructs == { "Human", "HumanOpt", "S1", "S2", "Nested" }

\* C15: for every value of a derived tagged struct, with any combination of
\* present and absent optional fields and any nesting of #[flatten] fields,
\* the length written in the Map header (count_fields) equals the number of
\* (tag, value) entries that serialize_fields then writes: the bytes after
\* the header are exactly 2 * count_fields complete values, and the whole
\* output is one Map of count_fields entries.
MapHeaderCountsEntries ==
    \A ty \in SerStructs :
        Serialized(ty)
        => LET body == serialize_fields(ty, src[2])
               n    == count_fields(ty, src[2])
               m    == Deser("checked", "Value", w)
           IN  /\ w = serialize_map(n) \o body
               /\ CountValues(body, 0) = 2 * n
               /\ m.res = "ok" /\ m.rest = <<>>
               /\ m.val[1] = "Map" /\ Len(m.val[2]) = n

\* Nested { s2: S2 { x, s1: S1 { x } }, o: None } : two entries, both written
\* by the flattened structs, and none for the absent optional field
WitnessMapHeaderCountsEntries ==
    /\ Serialized("Nested")
    /\ src[2][2] = <<"None">>
    /\ count_fields("Nested", src[2]) = 2
    /\ Len(Deser("checked", "Value", w).val[2]) = 2

\* C16: serializing a struct with a #[flatten] field produces the same bytes
\* as serializing the flat struct that declares the inner struct's tagged
\* fields in place of the flatten field: one Map, no nested Map, the inner
\* entries spliced in at the flatten field's position in declaration order.
\* S2 { x, s1: S1 { x } } against S2Flat, and Nested { s2: S2, o } , whose
\* flattened field has a flattened field, against NestedFlat.
FlattenSplices ==
    /\ Serialized("S2")
        => /\ w = Ser("S2Flat", << src[2][1], src[2][2][1] >>)
           /\ ValueOfW.val[1] = "Map"
           /\ \A i \in 1..Len(ValueOfW.val[2]) : ValueOfW.val[2][i][2][1] # "Map"
    /\ Serialized("Nested")
        => /\ w = Ser("NestedFlat",
                      << src[2][1][1], src[2][1][2][1], src[2][2] >>)
           /\ ValueOfW.val[1] = "Map"
           /\ \A i \in 1..Len(ValueOfW.val[2]) : ValueOfW.val[2][i][2][1] # "Map"

\* Nested { s2: S2 { x: 42, s1: S1 { x: 3 } }, o: Some(true) } serialized into
\* the Map { 2: 42, 1: 3, 0: true }
WitnessFlattenSplices ==
    /\ Serialized("Nested")
    /\ src[2] = << << FromNat(42, 4), << FromNat(3, 4) >> >>, <<"Some", TRUE>> >>
    /\ w = << 131, 2, 42, 1, 3, 0, 195 >>

RECURSIVE RequiredTags(_)
\* the tags of the non-optional fields of a tagged struct, those of its
\* flattened fields included
RequiredTags(ty) ==
    LET f == Schema(ty).fields IN
    UNION { IF f[i].attr = "flatten" THEN RequiredTags(f[i].ty)
            ELSE IF f[i].attr = "ordinary" THEN { FromNat(f[i].tag, 4) }
            ELSE {} : i \in 1..Len(f) }

RECURSIVE TypeOfTag(_, _)
\* the type of the field that carries the declared tag
TypeOfTag(ty, tag) ==
    LET f   == Schema(ty).fields
        own == { i \in 1..Len(f) :
                    f[i].attr # "flatten" /\ FromNat(f[i].tag, 4) = tag }
    IN  IF own # {} THEN f[CHOOSE i \in own : TRUE].ty
        ELSE TypeOfTag(f[CHOOSE i \in 1..Len(f) :
                            /\ f[i].attr = "flatten"
                            /\ tag \in DeclaredTags(f[i].ty)].ty, tag)

\* some entry of the map carries the tag
Present(tag) ==
    \E i \in 1..Len(Entries) : IsTag(Entries[i][1]) /\ TagOf(Entries[i][1]) = tag

\* every entry of the map can be read by the decoder of ty: the keys are u32
\* tags, no declared tag comes twice, and the value of a declared tag is of
\* the type of its field
Readable(ty) ==
    /\ FromMap
    /\ \A i \in 1..Len(Entries) : IsTag(Entries[i][1])
    /\ ~DuplicateTag(ty)
    /\ \A i \in 1..Len(Entries) :
          TagOf(Entries[i][1]) \in DeclaredTags(ty)
            => Deser("checked", TypeOfTag(ty, TagOf(Entries[i][1])),
                     Ser("Value", Entries[i][2])).res = "ok"

\* C17: decoding a Map into a tagged struct fails with a validation error
\* (MissingField) when, after all the entries of the map have been read, some
\* non-optional field has received no value; optional fields that received
\* no value are None and do not cause a failure: when every non-optional
\* field has its entry the decode succeeds. Whatever the entries are, a
\* decode that leaves a non-optional field without value never succeeds.
MissingFieldFails ==
    \A ty \in TaggedStructs :
        (Whole /\ Decoded(ty) /\ FromMap)
        => LET missing == \E t \in RequiredTags(ty) : ~Present(t)
               f       == Schema(ty).fields
           IN  /\ missing => out.res # "ok"
               /\ (Readable(ty) /\ missing) => out.res = "validation"
               /\ (Readable(ty) /\ ~missing)
                    => /\ out.res = "ok"
                       /\ \A i \in 1..Len(f) :
                             (f[i].attr = "optional" /\ ~Present(FromNat(f[i].tag, 4)))
                                => out.val[i] = <<"None">>

\* the Map { 2: "John", 7: true } read as Human: the entries are read, the
\* undeclared one skipped, and age has no value
WitnessMissingFieldFails ==
    /\ Whole /\ Decoded("Human") /\ Readable("Human")
    /\ Entries = << << VInt(2), VStr(<<74, 111, 104, 110>>) >>,
                    << VInt(7), <<"Bool", TRUE>> >> >>
    /\ out.res = "validation"

\* the orders in which n entries can be written
Perms(n) == { f \in [1..n -> 1..n] : \A i, j \in 1..n : f[i] = f[j] => i = j }

\* the keys of the map are pairwise distinct
DistinctKeys ==
    /\ FromMap
    /\ \A i, j \in 1..Len(Entries) : Entries[i][1] = Entries[j][1] => i = j

\* C18: the result of decoding a Map into a tagged struct does not depend on
\* the order of the map's entries: every permutation of the same set of
\* (tag, value) entries with distinct tags decodes to the same struct, or
\* fails in the same way.
EntryOrderIrrelevant ==
    \A ty \in TaggedStructs :
        (Whole /\ Decoded(ty) /\ DistinctKeys)
        => \A f \in Perms(Len(Entries)) :
              LET d == Deser("checked", ty,
                             Ser("Value", <<"Map", [i \in 1..Len(Entries) |-> Entries[f[i]]]>>))
              IN  d.res = out.res /\ d.val = out.val

\* the Map { 7: true, 2: "John", 0: 42 } read as Human: name comes before age
WitnessEntryOrderIrrelevant ==
    /\ Whole /\ Decoded("Human") /\ DistinctKeys
    /\ Entries = << << VInt(7), <<"Bool", TRUE>> >>,
                    << VInt(2), VStr(<<74, 111, 104, 110>>) >>,
                    << VInt(0), VInt(42) >> >>
    /\ out.res = "ok"
    /\ out.val = << FromNat(42, 4), <<74, 111, 104, 110>> >>

\* a <= b for two big-endian byte vectors of the same length
Leq(a, b) ==
    \/ a = b
    \/ \E i \in 1..Len(a) : a[i] < b[i] /\ \A j \in 1..(i - 1) : a[j] = b[j]

\* a key that orders the Ints as their numeric values are ordered, over
\* -2^63 .. 2^64-1: the negative ones first, in two's complement order
NumKey(n) == << IF n.sign THEN 0 ELSE 1 >> \o n.value

Width(ty) == UnsignedWidth(ty) + SignedWidth(ty)

\* the least and the greatest value of a native type, as Ints
MinOf(ty) ==
    IF UnsignedWidth(ty) > 0 THEN U(<<0>>)
    ELSE N(<<128>> \o Rep(0, Width(ty) - 1))

MaxOf(ty) ==
    IF UnsignedWidth(ty) > 0 THEN U(Rep(255, Width(ty)))
    ELSE U(<<127>> \o Rep(255, Width(ty) - 1))

\* the numeric value of n lies in the range of the native type
InRange(n, ty) ==
    Leq(NumKey(MinOf(ty)), NumKey(n)) /\ Leq(NumKey(n), NumKey(MaxOf(ty)))

\* C19: for every native integer x (i64, u64 and the narrower widths),
\* Int::from(x) converted back with try_from to the same native type returns
\* x; and for every Int n and every native width T (u8 .. u64, i8 .. i64),
\* T::try_from(n) succeeds exactly when the numeric value of n lies in the
\* range of T, and then returns that value; otherwise it fails with the range
\* error and no value (Int::from(u64::MAX) into i64 fails).
IntConversions ==
    out.op = "try_from"
        => /\ (out.res = "ok") <=> InRange(out.pre, out.ty)
           /\ out.res = "ok"
                => /\ Len(out.val) = Width(out.ty)
                   /\ IntFromNative(out.ty, out.val) = out.pre
           /\ out.res # "ok" => (out.res = "range" /\ out.val = <<>>)
           /\ (src # <<>> /\ src[1] = out.ty)
                => (out.res = "ok" /\ out.val = src[2])

\* Int::from(u64::MAX) converted into i64
WitnessIntConversions ==
    /\ out.op = "try_from" /\ out.ty = "i64"
    /\ src = << "u64", Rep(255, 8) >>
    /\ out.res = "range"

UntaggedEnums == { "AnimalU", "Trial" }

\* a value of an untagged enum has been serialized and the bytes, all of them
\* and nothing else, decoded into the same enum
UntaggedRoundTripped == Whole /\ src[1] \in UntaggedEnums /\ Decoded(src[1])

\* C20, as claimed: for every value v of an untagged enum, serialize(v) is
\* the encoding of the variant's inner value with no wrapper, and
\* deserialize(serialize(v)) returns v: the same variant with the same payload.
UntaggedRoundTrip ==
    UntaggedRoundTripped
        => /\ w = Ser(Schema(src[1]).fields[src[2][1]].ty, src[2][2])
           /\ out.res = "ok" /\ out.val = src[2]

\* C20, amended: for every value v of an untagged enum, serialize(v) is the
\* encoding of the variant's inner value with no wrapper, and the inner type
\* decodes these bytes back to the payload. deserialize(serialize(v)) returns
\* v, the same variant with the same payload, when every variant declared
\* before v's fails with a validation error on these bytes; when one of them
\* does not, the decode ends with the first such variant and its result, so
\* a variant other than v's comes back.
UntaggedRoundTripFirstMatch ==
    UntaggedRoundTripped
        => LET i       == src[2][1]
               earlier == { j \in 1..(i - 1) : Inner(j).res # "validation" }
           IN  /\ w = Ser(Schema(src[1]).fields[i].ty, src[2][2])
               /\ Inner(i).res = "ok" /\ Inner(i).val = src[2][2]
               /\ Inner(i).rest = <<>>
               /\ earlier = {}
                    => (out.res = "ok" /\ out.val = src[2] /\ r = <<>>)
               /\ earlier # {}
                    => LET j == CHOOSE k \in earlier : \A l \in earlier : k <= l IN
                       /\ out.res = Inner(j).res
                       /\ out.res = "ok" => out.val = <<j, Inner(j).val>>
                       /\ out.val # src[2]

\* Trial::F(Value::Int(5)) is serialized into 05, which the variant D(u8)
\* declared before F decodes: D(5) comes back
WitnessUntaggedRoundTripFirstMatch ==
    /\ UntaggedRoundTripped
    /\ src = << "Trial", << 6, VInt(5) >> >>
    /\ w = << 5 >>
    /\ out.res = "ok" /\ out.val = << 4, <<5>> >>

RECURSIVE PairsInOrder(_, _)
\* the wire forms of the pairs e[i ..], key then value, one pair after another
PairsInOrder(e, i) ==
    IF i > Len(e) THEN <<>>
    ELSE Ser("Value", e[i][1]) \o Ser("Value", e[i][2]) \o PairsInOrder(e, i + 1)

\* some key comes more than once in the map
RepeatedKey ==
    /\ FromMap
    /\ \E i, j \in 1..Len(Entries) : i < j /\ Entries[i][1] = Entries[j][1]

\* C21: decoding a Map whose entries repeat a key into a Value keeps every
\* pair, in wire order, without deduplication or reordering, and encoding a
\* Value::Map writes the pairs back in the same order; only the Index lookup
\* value[key] resolves duplicates: it returns the value of the last entry
\* with that key.
ValueKeepsDuplicateKeys ==
    /\ (RepeatedKey /\ pc # "gen")
        => w = serialize_map(Len(Entries)) \o PairsInOrder(Entries, 1)
    /\ (Whole /\ RepeatedKey /\ Decoded("Value"))
        => /\ out.res = "ok" /\ out.val[1] = "Map"
           /\ Len(out.val[2]) = Len(Entries)
           /\ \A i \in 1..Len(Entries) : out.val[2][i] = Entries[i]
           /\ Ser("Value", out.val) = w
    /\ out.op = "index"
        => LET key == out.val[1]
               v   == out.val[2]
               hit == IF v[1] = "Map"
                        THEN { i \in 1..Len(v[2]) : v[2][i][1] = <<"Str", key>> }
                        ELSE {}
           IN  IF hit = {} THEN out.res = "panic"
               ELSE /\ out.res = "ok"
                    /\ \E i \in hit : /\ \A j \in hit : j <= i
                                       /\ out.val[3] = v[2][i][2]

\* the Map { "k": "x", "k": nil } decoded into a Value with both pairs, and
\* value["k"] giving nil, the value of the later pair
WitnessValueKeepsDuplicateKeys ==
    /\ out.op = "index" /\ out.val[1] = <<107>>
    /\ out.val[2] = <<"Map", << << VStr(<<107>>), VStr(<<120>>) >>,
                                 << VStr(<<107>>), <<"Nil">> >> >> >>
    /\ src[2] = out.val[2]
    /\ out.res = "ok" /\ out.val[3] = <<"Nil">>

\* the bytes of the first complete value of the input of the last operation
FirstValue == Take(out.pre, Len(out.pre) - Len(ValueAtCursor.rest))

\* C22: top-level deserialize::<D>(bytes) decodes the first value and
\* succeeds regardless of what follows it: bytes remaining after the first
\* complete value, even ones that are not valid MessagePack (the reserved
\* marker 0xc1), are ignored and never cause an error. The result is that of
\* decoding the first value alone.
TrailingBytesIgnored ==
    out.op = "deserialize_bytes"
        => /\ \A t \in Trailing :
                 (out.pre = w \o t /\ Deser("checked", out.ty, w).res = "ok")
                    => /\ out.res = "ok"
                       /\ out.val = Deser("checked", out.ty, w).val
           /\ (ValueAtCursor.res = "ok"
                 /\ Deser("checked", out.ty, FirstValue).res = "ok")
                => /\ out.res = "ok"
                   /\ out.val = Deser("checked", out.ty, FirstValue).val

\* the bytes 01 c1 of the test deserialize_ignores_extra_bytes read as Int
WitnessTrailingBytesIgnored ==
    /\ out.op = "deserialize_bytes" /\ out.ty = "Int"
    /\ out.pre = << 1, 193 >>
    /\ out.res = "ok" /\ out.val = U(<<1>>)

\* The marker table of the MessagePack format.
\* the number of bytes that follow the marker m before any payload: the
\* fixed-width field, or the length prefix and, for an ext, its type byte
HeadLen(m) ==
    CASE m \in {204, 208, 217, 196, 212, 213, 214, 215, 216} -> 1
      [] m \in {205, 209, 218, 197, 220, 222, 199} -> 2
      [] m = 200 -> 3
      [] m \in {206, 210, 202, 219, 198, 221, 223} -> 4
      [] m = 201 -> 5
      [] m \in {207, 211, 203} -> 8
      [] OTHER -> 0

\* the token kind of the marker m
KindOf(m) ==
    CASE m <= 127 \/ m >= 224 \/ m \in 204..211 -> "Int"
      [] m \in 128..143 \/ m \in {222, 223} -> "Map"
      [] m \in 144..159 \/ m \in {220, 221} -> "Array"
      [] m \in 160..191 \/ m \in {217, 218, 219} -> "Str"
      [] m = 192 -> "Nil"
      [] m \in {194, 195} -> "Bool"
      [] m \in {196, 197, 198} -> "Bin"
      [] m \in {199, 200, 201} \/ m \in 212..216 -> "Ext"
      [] m = 202 -> "F32"
      [] m = 203 -> "F64"
      [] OTHER -> "reserved"

\* the bytes of the length prefix of a str, bin or ext header h (the bytes
\* after the marker m), or the length that the marker itself gives
PayloadPrefix(m, h) ==
    CASE m \in 160..191 -> << m - 160 >>
      [] m \in {217, 218, 219, 196, 197, 198} -> h
      [] m \in {199, 200, 201} -> Take(h, Len(h) - 1)
      [] m \in 212..216 -> << 2 ^ (m - 212) >>
      [] OTHER -> << 0 >>

\* the length given by the prefix p, when at most avail, else avail + 1
PayloadLen(p, avail) ==
    IF \A i \in 1..(Len(p) - 2) : p[i] = 0
    THEN (IF ToNat(p) <= avail THEN ToNat(p) ELSE avail + 1)
    ELSE avail + 1

\* C23: deserialize_token returns InvalidInput exactly when no marker byte
\* remains, the marker is the reserved value 0xc1, or the fixed-width field,
\* length prefix or payload announced by the marker extends past the end of
\* the buffer; in every other case it returns the token given by the marker
\* table and the cursor is just past the token; for an Array or Map marker it
\* consumes only the header, leaving the children unread.
TokenMarkerTable ==
    out.op = "deserialize_token"
        => LET b == out.pre IN
           IF b = <<>> THEN out.res = "invalid"
           ELSE
           LET m     == b[1]
               avail == Len(b) - 1 - HeadLen(m)
               h     == Take(Drop(b, 1), HeadLen(m))
               n     == PayloadLen(PayloadPrefix(m, h), avail)
           IN  IF m = 193 \/ avail < 0 \/ n > avail THEN out.res = "invalid"
               ELSE /\ out.res = "ok"
                    /\ out.val[1] = KindOf(m)
                    /\ r = Drop(b, 1 + HeadLen(m) + n)
                    /\ KindOf(m) \in {"Array", "Map"}
                         => /\ r = Drop(b, 1 + HeadLen(m))
                            /\ out.val[2] =
                                 ZeroExt(IF HeadLen(m) = 0 THEN << m % 16 >> ELSE h, 4)
                    /\ KindOf(m) \in {"Str", "Bin"}
                         => out.val[2] = Take(Drop(b, 1 + HeadLen(m)), n)

\* a str 32 header that announces two bytes of payload where one remains
WitnessTokenMarkerTable ==
    /\ out.op = "deserialize_token"
    /\ out.pre = << 219, 0, 0, 0, 2, 97 >>
    /\ out.res = "invalid"

\* the operations that decode bytes
DecodeOps ==
    { "deserialize_token", "deserialize", "try_deserialize", "deserialize_any",
      "deserialize_bytes" }

\* C24: every decode operation on any finite byte string ends with a success
\* or an error (InvalidInput or validation), never otherwise: the cursor only
\* moves forward within the bytes it had (what is left is a suffix of them),
\* and each token read consumes at least one byte or fails.
DecodeTerminates ==
    out.op \in DecodeOps
        => /\ out.res \in {"ok", "validation", "invalid"}
           /\ Len(r) <= Len(out.pre)
           /\ r = Drop(out.pre, Len(out.pre) - Len(r))
           /\ out.op = "deserialize_token" /\ out.res = "ok" => Len(r) < Len(out.pre)

\* C25: deserialize_any consumes exactly one well-formed value: when it
\* returns Ok the cursor is where decoding the same bytes as a Value leaves
\* it, and it fails, with InvalidInput, on exactly the inputs on which the
\* Value decode fails.
DiscardMatchesValue ==
    out.op = "deserialize_any"
        => /\ out.res = "ok" <=> ValueAtCursor.res = "ok"
           /\ out.res = "ok" => r = ValueAtCursor.rest
           /\ out.res # "ok" => out.res = "invalid"

RECURSIVE DiscardWide(_, _)
\* the discard of one value with a pending count of 8 bytes, which no header
\* of the inputs can overflow: each token lowers the count by one, an
\* Array(len) header raises it by len and a Map(len) header by 2 * len
DiscardWide(count, b) ==
    IF IsZero(count) THEN Res("ok", <<"Any">>, b)
    ELSE LET t   == deserialize_token(b)
             c1  == Dec(count)
             len == IF t.res = "ok" /\ t.val[1] \in {"Array", "Map"}
                    THEN ZeroExt(t.val[2], 8) ELSE Rep(0, 8)
         IN  IF t.res # "ok" THEN Invalid(t.rest)
             ELSE IF t.val[1] = "Array"
                  THEN DiscardWide(Drop(AddC(c1, len, 0), 1), t.rest)
             ELSE IF t.val[1] = "Map"
                  THEN DiscardWide(Drop(AddC(c1, Drop(AddC(len, len, 0), 1), 0), 1), t.rest)
             ELSE DiscardWide(c1, t.rest)

\* C30: in deserialize_any the 32-bit pending count never overflows: for every
\* Array(len) and Map(len) header with len up to 2^32-1, nested ones included,
\* count + len and len * 2 neither panic nor wrap around, so the discard ends
\* as the discard with an unbounded count does: a Map(len) header makes it
\* expect exactly 2 * len further values.
CountNeverOverflows ==
    out.op = "deserialize_any"
        => /\ out.res # "panic"
           /\ out.res = DiscardWide(Rep(0, 7) \o << 1 >>, out.pre).res
           /\ out.res = "ok" => r = DiscardWide(Rep(0, 7) \o << 1 >>, out.pre).rest

\* the tagged structs with a #[flatten] field
FlattenStructs == { "S2", "S2Clash", "Nested" }

\* C26: for every value v of a tagged struct that has a #[flatten] field, and
\* for every tag assignment the derive accepts for the outer and the flattened
\* struct, deserialize(serialize(v)) equals v and the cursor ends just past
\* the Map, whatever follows it.
FlattenRoundTrip ==
    \A ty \in FlattenStructs :
       \A t \in {<<>>} \cup Trailing :
          src # <<>> /\ src[1] = ty /\ Decoded(ty) /\ out.pre = w \o t
              => /\ out.res = "ok"
                 /\ out.val = src[2]
                 /\ r = t

\* the indices of the entries whose key is a tag that ty declares
DeclaredOnes(ty) ==
    { i \in 1..Len(Entries) :
         IsTag(Entries[i][1]) /\ TagOf(Entries[i][1]) \in DeclaredTags(ty) }

\* the decode of the map without the pairs whose key is not a declared tag
WithoutExtras(ty) ==
    Deser("checked", ty, Ser("Value", <<"Map", Pick(Entries, DeclaredOnes(ty), 1)>>))

\* C27: when a Map is decoded into a tagged struct, a pair whose key is not a
\* declared tag is ignored whatever the key is, keys that no u32 holds
\* included (a string, nil, a negative integer, an integer above 2^32-1): the
\* decode ends as the decode of the map without these pairs does.
ExtraPairIgnored ==
    \A ty \in TaggedStructs :
       (Whole /\ Decoded(ty) /\ FromMap)
           => /\ out.res = WithoutExtras(ty).res
              /\ out.res = "ok" => out.val = WithoutExtras(ty).val /\ r = <<>>

\* the native type of the field behind an integer marker
MarkerType(m) ==
    CASE m <= 127 \/ m = 204 -> "u8"
      [] m >= 224 \/ m = 208 -> "i8"
      [] m = 205 -> "u16"
      [] m = 206 -> "u32"
      [] m = 207 -> "u64"
      [] m = 209 -> "i16"
      [] m = 210 -> "i32"
      [] m = 211 -> "i64"

\* the integer that the native value x of type ty denotes, in two's
\* complement on 9 bytes, which holds -2^63 .. 2^64-1
Wide(ty, x) == IF UnsignedWidth(ty) > 0 THEN ZeroExt(x, 9) ELSE SignExt(x, 9)

\* the integer that a wire form denotes
WireWide(b) ==
    Wide(MarkerType(b[1]), IF b[1] <= 127 \/ b[1] >= 224 THEN << b[1] >> ELSE Drop(b, 1))

\* the integer from which the Int at hand was built
BuiltFrom == IF out.op = "from" THEN Wide(out.ty, out.pre) ELSE WireWide(out.pre)

\* C28: every Int built by a From conversion (u8 .. u64, i8 .. i64) or
\* returned by deserialize_token satisfies: sign implies that bit 63 of value
\* is set, and a non-negative input gives sign = FALSE; so two Ints are equal
\* exactly when they denote the same integer, whichever conversion or wire
\* form built them.
IntSignInvariant ==
    out.op \in {"from", "token"}
        => /\ out.res = "ok"
           /\ out.val.sign => out.val.value[1] >= 128
           /\ BuiltFrom[1] = 0 => ~out.val.sign
           /\ out.val.value = Drop(BuiltFrom, 1)
           /\ \A ty \in IntTypes : \A x \in Samples(ty) :
                 (IntFromNative(ty, x) = out.val) <=> (Wide(ty, x) = BuiltFrom)
           /\ \A b \in IntWires :
                 (deserialize_token(b).val[2] = out.val) <=> (WireWide(b) = BuiltFrom)

\* 2^63 read from a uint 64 field, and 2^63 built from a u64: sign is FALSE
\* though bit 63 is set
WitnessIntSignInvariant ==
    /\ out.op \in {"from", "token"}
    /\ BuiltFrom = << 0, 128 >> \o Rep(0, 7)
    /\ ~out.val.sign
    /\ out.val.value[1] >= 128

\* an integer has been serialized: an Int, a native integer or a Value::Int
SerializedInt ==
    /\ pc = "ser" /\ src # <<>>
    /\ \/ src[1] \in {"Int"} \cup IntTypes
       \/ src[1] = "Value" /\ src[2][1] = "Int"

\* the Int handed to serialize_int
IntWritten ==
    IF src[1] = "Int" THEN src[2]
    ELSE IF src[1] = "Value" THEN src[2][2]
    ELSE IntFromNative(src[1], src[2])

\* C29: serialize_int handles every Int in -2^63 .. 2^64-1: whenever the
\* conversion of the Int to i64 fails its conversion to u64 succeeds, so the
\* unwrap of the u64 conversion cannot fail, and what is written is one
\* well-formed integer: the bytes read back as one Token::Int of that Int.
SerializeIntTotal ==
    SerializedInt
        => /\ I64TryFrom(IntWritten).ok \/ U64TryFrom(IntWritten).ok
           /\ deserialize_token(w) = Res("ok", <<"Int", IntWritten>>, <<>>)

\* 2^64-1, which no i64 holds, is written as a uint 64
WitnessSerializeIntTotal ==
    /\ SerializedInt
    /\ IntWritten = U(Rep(255, 8))
    /\ ~I64TryFrom(IntWritten).ok
    /\ w = << 207 >> \o Rep(255, 8)

====
